---- MODULE Spec2Model ----
(***************************************************************************)
(* A model of the MT5 Server desktop application's silent installer        *)
(* (electron/src/installer.js, class SilentInstaller): the installation    *)
(* state store, the runtime locator, the bundle extractor and the          *)
(* provisioning orchestrator, together with the part of the world they     *)
(* read and change (the state file, the files on disk, the runtime's       *)
(* machines and images), and of the application shell built around it     *)
(* (electron/src/main.js): the launch handler, the container lifecycle     *)
(* functions checkContainerStatus, startContainer and stopContainer, the   *)
(* tray menu and the quit handler.                                         *)
(*                                                                         *)
(* Strings the code searches with String.includes are sequences of tokens, *)
(* so that "contains" is computed, not assumed.                            *)
(***************************************************************************)
EXTENDS Naturals, Sequences, FiniteSets, TLC

\* ------------------------------------------------------------------ bounds

\* The clock of the state-store specification runs from 0 to MaxClock.
MaxClock == 2

\* The public methods called in one behaviour, over all launches.
MaxCalls == 2

\* The commands of one call that fail although they could have succeeded (a
\* timeout, a runtime that is busy).
MaxFaults == 1

\* ----------------------------------------------------------------- strings

\* output.includes(needle): needle occurs as a contiguous part of hay.
Includes(hay, needle) ==
  \E i \in 1..(Len(hay) + 1) :
     /\ i + Len(needle) - 1 <= Len(hay)
     /\ SubSeq(hay, i, i + Len(needle) - 1) = needle

NL == "\n"

RECURSIVE JoinLines(_)
\* The lines of a command's standard output, each ended by a newline.
JoinLines(lines) ==
  IF lines = <<>> THEN <<>>
  ELSE Head(lines) \o <<NL>> \o JoinLines(Tail(lines))

RECURSIVE TrimEnd(_)
TrimEnd(s) ==
  IF s # <<>> /\ s[Len(s)] = NL THEN TrimEnd(SubSeq(s, 1, Len(s) - 1)) ELSE s

RECURSIVE TrimStart(_)
TrimStart(s) ==
  IF s # <<>> /\ Head(s) = NL THEN TrimStart(Tail(s)) ELSE s

\* stdout.trim()
Trim(s) == TrimStart(TrimEnd(s))

\* ------------------------------------------------------------- state store

\* What fs.readFileSync and JSON.parse can meet at the state file's path: no
\* file, a file that is not JSON, or a JSON object.
EmptyObject == [k \in {} |-> TRUE]
NoFile == [kind |-> "ENOENT", obj |-> EmptyObject]
Corrupt == [kind |-> "not JSON", obj |-> EmptyObject]
Json(o) == [kind |-> "json", obj |-> o]

Parses(f) == f.kind = "json"

\* A value JSON.stringify leaves out of the object it writes.
Undefined == "undefined"

SrcSystem == "system"
SrcBundled == "bundled"

\* getState(): the parsed record, or {} when the file cannot be read or parsed.
getState(f) == IF Parses(f) THEN f.obj ELSE EmptyObject

\* { ...a, ...b }
Spread(a, b) ==
  [k \in (DOMAIN a) \cup (DOMAIN b) |-> IF k \in DOMAIN b THEN b[k] ELSE a[k]]

\* The fields written from an instance variable, which may be undefined; the
\* flags and the timestamps are written from literals and from new Date().
PathFields == {"podmanSource", "podmanPath"}

\* JSON.stringify(o) read back by JSON.parse: fields whose value is undefined
\* are not written.
Stringify(o) ==
  LET kept == {k \in DOMAIN o : ~(k \in PathFields /\ o[k] = Undefined)}
  IN  Json([k \in kept |-> o[k]])

\* saveState with the spread of currentState left out.
saveStateDropsOld(f, state, now) ==
  Stringify(Spread(state, [updatedAt |-> now]))

\* saveState(state): the file's content after the call,
\* { ...currentState, ...state, updatedAt: now } written as JSON.
saveState(f, state, now) ==
  Stringify(Spread(Spread(getState(f), state), [updatedAt |-> now]))

\* isInstalled with || in place of &&.
isInstalledEither(f) ==
  /\ Parses(f)
  /\ \/ ("installed" \in DOMAIN f.obj /\ f.obj.installed = TRUE)
     \/ ("imageLoaded" \in DOMAIN f.obj /\ f.obj.imageLoaded = TRUE)

\* isInstalled(): state.installed === true && state.imageLoaded === true,
\* false when reading or parsing throws.
isInstalled(f) ==
  /\ Parses(f)
  /\ "installed" \in DOMAIN f.obj /\ f.obj.installed = TRUE
  /\ "imageLoaded" \in DOMAIN f.obj /\ f.obj.imageLoaded = TRUE

\* ------------------------------------------------------------------- state

VARIABLES
  platform,          \* process.platform
  stateFile,         \* the content of install-state.json
  clock,             \* the time new Date() reads
  systemPodman,      \* the system locations where a runtime answers
  podmanArchive,     \* bundled/podman-<platform>.tar.gz: "missing", "good", "nobin"
  podmanDir,         \* the extraction directory userData/podman exists
  binOnDisk,         \* the extracted runtime binary exists under userData
  imageTar,          \* bundled/mt5-server.tar: the image it holds, NoTar if missing
  images,            \* the image references the runtime lists
  machines,          \* the runtime's machines: name -> running
  podmanBin,         \* this.podmanBin
  systemPodmanPath,  \* this.systemPodmanPath
  op,                \* the public method being executed, "none" between calls
  pc,                \* the place the method has reached
  io,                \* the child process the method awaits
  probeIdx,          \* checkSystemPodman's position in podmanPaths
  err,               \* the error thrown on the way to install()'s catch
  result,            \* how the call settled
  events,            \* the progress events the call has emitted
  cmds,              \* the child processes the call has started
  saved,             \* the arguments of the call's saveState calls
  steps,             \* the provisioning steps the call has entered
  stepsDone,         \* the provisioning steps the call has completed
  fileAtCall,        \* the state file's content when the call was made
  faults,            \* the call's commands that failed for no lasting reason
  fullRun,           \* some install() run has passed verification
  calls              \* the public methods called so far

\* main.js: the runtime's containers, the module's variables and the handlers.
VARIABLES
  arch,              \* process.arch
  container,         \* the container named mt5-server: "absent", "stopped", "running"
  otherContainer,    \* a container named mt5-server-old is running
  isContainerRunning,\* main.js's isContainerRunning
  mainPodmanBin,     \* main.js's podmanBin
  mainWindow,        \* what mainWindow shows: "none", "install", "index", "novnc",
                     \* or "destroyed" once the user has closed the setup window
  tray,              \* the status the tray menu was last built with, "none" before
  dialogs,           \* the dialogs this process has shown
  task,              \* the handler being executed, "none" between handlers
  main,              \* the place the handler has reached
  fn,                \* the lifecycle function the handler awaits
  lpc,               \* the place that function has reached
  lio,               \* the child process that function awaits
  lcmds,             \* the commands that function call has issued
  lret,              \* what that function call returned
  lchain,            \* the chain that startContainer call started, 0 for none
  chains,            \* the removals and launches started and not yet over
  starts,            \* the startContainer calls that went on to the removal
  issued,            \* the container commands this process has issued
  decision,          \* the last decision taken on the container's status
  stored,            \* where isContainerRunning has its value from
  installs,          \* the install() calls this process has made
  startup,           \* what the launch did about the container before the window
  launches,          \* the times the application has been launched
  ops,               \* the menu items clicked since the launch
  appReady,          \* main.js's appReady
  allClosed          \* the window-all-closed events this process has handled

\* Application instances that run at the same time on one state file.
VARIABLES
  peer,              \* each instance's installation run and its saveState call
  initialFile,       \* the state file's content when the instances were launched
  lastWrite,         \* the instance and the record of the last write to the file
  wroteFields,       \* the fields and values the instances have passed to saveState
  invocations        \* the startContainer calls of click handlers that run side by side

disk == <<platform, systemPodman, podmanArchive, podmanDir, binOnDisk, imageTar>>
world == <<disk, images, machines>>
instance == <<podmanBin, systemPodmanPath>>
call == <<op, pc, io, probeIdx, err, result, events, cmds, saved, steps,
          stepsDone, fileAtCall, faults>>
runtime == <<arch, container, otherContainer>>
shell == <<isContainerRunning, mainPodmanBin, mainWindow, tray, dialogs, task,
           main, fn, lpc, lio, lcmds, lret, lchain, chains, starts, issued,
           decision, stored, installs, startup, launches, ops, appReady,
           allClosed>>
windows == <<appReady, allClosed>>
race == <<peer, initialFile, lastWrite, wroteFields, invocations>>
app == <<runtime, shell, race>>
vars == <<world, stateFile, clock, instance, call, fullRun, calls, app>>

Platforms == {"darwin", "linux", "win32"}

\* NeedsMachine with win32 left out.
NeedsMachineDarwinOnly(p) == p = "darwin"

\* The platforms whose runtime needs a virtual machine
\* (this.platform === 'darwin' || this.platform === 'win32').
NeedsMachine(p) == p = "darwin" \/ p = "win32"

\* ------------------------------------------------------------------- paths

BarePodman == "podman"

\* podmanPaths without the bare command name.
podmanPathsAbsolute(p) ==
  IF p = "win32"
  THEN << "C:\\Program Files\\RedHat\\Podman\\podman.exe",
          "%LOCALAPPDATA%\\Programs\\Podman\\podman.exe" >>
  ELSE << "/opt/homebrew/bin/podman",
          "/usr/local/bin/podman",
          "/opt/podman/bin/podman",
          "/usr/bin/podman" >>

\* checkSystemPodman's podmanPaths.
podmanPaths(p) ==
  IF p = "win32"
  THEN << "C:\\Program Files\\RedHat\\Podman\\podman.exe",
          "%LOCALAPPDATA%\\Programs\\Podman\\podman.exe",
          BarePodman >>
  ELSE << "/opt/homebrew/bin/podman",
          "/usr/local/bin/podman",
          "/opt/podman/bin/podman",
          "/usr/bin/podman",
          BarePodman >>

\* getPodmanBinPath(): where the bundled runtime is extracted to.
getPodmanBinPath(p) ==
  CASE p = "darwin" -> "userData/podman/bin/podman"
    [] p = "linux"  -> "userData/podman/bin/podman"
    [] p = "win32"  -> "userData/podman/podman.exe"
    [] OTHER        -> BarePodman

\* ------------------------------------------------------- images and machines

\* this.imageName
imageName == << "localhost/", "avyaktha-mt5", ":eightcap-", "arm64" >>
\* The image build-all.sh tags for the other architecture.
imageX86 == << "localhost/", "avyaktha-mt5", ":eightcap-", "x86" >>
\* The fragment verifyInstallation looks for.
imageFragment == << "avyaktha-mt5" >>

\* No mt5-server.tar in the bundle.
NoTar == <<>>

ImageOrder == << imageName, imageX86 >>
ImageRefs == {ImageOrder[i] : i \in DOMAIN ImageOrder}

DefaultMachine == << "podman-machine-default" >>
OtherMachine == << "dev" >>
MachineOrder == << DefaultMachine, OtherMachine >>
MachineNames == {MachineOrder[i] : i \in DOMAIN MachineOrder}

\* images --format "{{.Repository}}:{{.Tag}}"
ImagesOutput(imgs) ==
  Trim(JoinLines(SelectSeq(ImageOrder, LAMBDA r : r \in imgs)))

\* machine list --format "{{.Name}}"
MachineNamesOutput(ms) ==
  Trim(JoinLines(SelectSeq(MachineOrder, LAMBDA m : m \in DOMAIN ms)))

RunningLine(b) == IF b THEN << "true" >> ELSE << "false" >>

RECURSIVE RunningLines(_, _)
RunningLines(order, ms) ==
  IF order = <<>> THEN <<>>
  ELSE (IF Head(order) \in DOMAIN ms
        THEN << RunningLine(ms[Head(order)]) >> ELSE <<>>)
       \o RunningLines(Tail(order), ms)

\* machine list --format "{{.Running}}"
MachineRunningOutput(ms) == Trim(JoinLines(RunningLines(MachineOrder, ms)))

\* ---------------------------------------------------------------- commands

Cmd(bin, verb) == [bin |-> bin, verb |-> verb]

Version == "--version"
MachineListName == "machine list --format {{.Name}}"
MachineListRunning == "machine list --format {{.Running}}"
MachineInit == "machine init --cpus 2 --memory 4096 --disk-size 20"
MachineStart == "machine start"
Images == "images --format {{.Repository}}:{{.Tag}}"
Load == "load -i mt5-server.tar"
TarBin == "tar"
TarExtract == "-xzf podman-<platform>.tar.gz -C userData/podman"

\* main.js's container commands.
Ps == "ps --filter name=mt5-server --format {{.Names}}"
RmForce == "rm -f mt5-server"
RunDetached == "run -d --name mt5-server -e ... -p ... <CONFIG.imageName>"
Stop == "stop mt5-server"

\* main.js's CONFIG.containerName and the name of somebody else's container.
containerName == << "mt5-server" >>
otherName == << "mt5-server", "-old" >>
ContainerOrder == << containerName, otherName >>

\* main.js's getArchSuffix(): x64, ia32 and the rest use the x86 image.
getArchSuffix(a) == IF a = "arm64" THEN "arm64" ELSE "x86"

\* main.js's CONFIG.imageName
configImageName(a) ==
  << "localhost/", "avyaktha-mt5", ":eightcap-", getArchSuffix(a) >>

\* The running containers, mt5-server first.
Running(c, other) ==
  (IF c = "running" THEN {containerName} ELSE {})
    \cup (IF other THEN {otherName} ELSE {})

\* ps --filter name=mt5-server --format "{{.Names}}": the filter keeps every
\* running container whose name contains mt5-server, one name a line.
PsOutput(c, other) ==
  JoinLines(SelectSeq(ContainerOrder,
                      LAMBDA n : n \in Running(c, other)
                                 /\ Includes(n, containerName)))

\* Whether the binary a command names can be executed at all: the extracted
\* runtime once it is on disk, a system location if a runtime is installed
\* there.
BinRuns(bin) ==
  IF bin = getPodmanBinPath(platform) THEN binOnDisk ELSE bin \in systemPodman

\* Whether the command can exit zero in the present world.  Every command can
\* fail (a nonzero exit, a timeout).
CanSucceed(c) ==
  /\ c.bin = TarBin \/ BinRuns(c.bin)
  /\ CASE c.verb = MachineInit  -> DefaultMachine \notin DOMAIN machines
       [] c.verb = MachineStart -> DefaultMachine \in DOMAIN machines
       [] c.verb = Load         -> imageTar # NoTar
       [] c.verb = RunDetached  -> /\ container = "absent"
                                   /\ configImageName(arch) \in images
       [] c.verb = Stop         -> container # "absent"
       [] OTHER                 -> TRUE

\* The standard output, trimmed, of a command that exits zero.
Stdout(c) ==
  CASE c.verb = MachineListName    -> MachineNamesOutput(machines)
    [] c.verb = MachineListRunning -> MachineRunningOutput(machines)
    [] c.verb = Images             -> ImagesOutput(images)
    [] OTHER                       -> <<>>

\* The runtime's machines after a command that exits zero.
MachinesAfter(c) ==
  CASE c.verb = MachineInit  ->
         [m \in (DOMAIN machines) \cup {DefaultMachine} |->
            IF m = DefaultMachine THEN FALSE ELSE machines[m]]
    [] c.verb = MachineStart ->
         [m \in DOMAIN machines |->
            IF m = DefaultMachine THEN TRUE ELSE machines[m]]
    [] OTHER -> machines

\* The runtime's images after a command that exits zero.
ImagesAfter(c) ==
  IF c.verb = Load THEN images \cup {imageTar} ELSE images

\* new Error(stderr || error.message)
CommandError(c) == "Command failed: " \o c.verb

Idle == [st |-> "idle"]

\* --------------------------------------------------------- progress, results

Event(step, message, progress) ==
  [step |-> step, message |-> message, progress |-> progress]

Pending == [st |-> "pending"]
Resolved(v) == [st |-> "resolved", val |-> v]
Rejected(e) == [st |-> "rejected", val |-> e]

\* The steps install() must have completed before it records the installation.
RequiredSteps(p) ==
  {"podman", "image", "verify"} \cup (IF NeedsMachine(p) THEN {"machine"} ELSE {})

\* ------------------------------------------------------------ initial state

NoMachines == [m \in {} |-> FALSE]

\* The machines a runtime can hold when the application is first launched.
MachineStates ==
  {ms \in UNION {[D -> BOOLEAN] : D \in SUBSET MachineNames} :
     OtherMachine \in DOMAIN ms => ms[OtherMachine]}

\* The system locations where a runtime answers when the application is first
\* launched: none, one of the candidates, or an absolute one that is also on
\* the PATH.
SystemRuntimes(p) ==
  {S \in SUBSET {podmanPaths(p)[i] : i \in DOMAIN podmanPaths(p)} :
     \/ Cardinality(S) <= 1
     \/ Cardinality(S) = 2 /\ BarePodman \in S}

\* Between calls: no method is running and nothing of a call is recorded.
CallIdle ==
  /\ op = "none" /\ pc = "idle" /\ io = Idle /\ probeIdx = 0 /\ err = ""
  /\ result = Pending /\ events = <<>> /\ cmds = <<>> /\ saved = <<>>
  /\ steps = <<>> /\ stepsDone = {} /\ fileAtCall = NoFile /\ faults = 0

ResetCall ==
  /\ op' = "none" /\ pc' = "idle" /\ io' = Idle /\ probeIdx' = 0 /\ err' = ""
  /\ result' = Pending /\ events' = <<>> /\ cmds' = <<>> /\ saved' = <<>>
  /\ steps' = <<>> /\ stepsDone' = {} /\ fileAtCall' = NoFile /\ faults' = 0

\* The constructor followed by init().
InstanceFresh ==
  /\ podmanBin = getPodmanBinPath(platform)
  /\ systemPodmanPath = Undefined

\* No chain of removal and launch.
NoChains == [k \in {} |-> Idle]
NoDecision == [what |-> "none", value |-> FALSE, from |-> "initial"]

\* Where isContainerRunning has its value from: the module's initial false, a
\* status check or a stop; the command's exit and output, and whether the
\* container was running when the command ended.
Stored(by, ok, out, was) == [by |-> by, ok |-> ok, out |-> out, was |-> was]
NotStored == Stored("initial", TRUE, <<>>, FALSE)

\* One application instance: nothing runs beside it.
NoPeers == [i \in {} |-> Idle]
NoWrite == [by |-> 0, file |-> NoFile]
NoInvocations == [i \in {} |-> Idle]
Alone ==
  /\ peer = NoPeers /\ initialFile = NoFile /\ lastWrite = NoWrite
  /\ wroteFields = {}
  /\ invocations = NoInvocations

\* main.js as loaded: the module's initial values, no handler running.
ShellLoaded ==
  /\ isContainerRunning = FALSE /\ mainPodmanBin = BarePodman
  /\ mainWindow = "none" /\ tray = "none" /\ dialogs = {}
  /\ task = "none" /\ main = "loaded" /\ fn = "none" /\ lpc = "idle"
  /\ lio = Idle /\ lcmds = <<>> /\ lret = "none" /\ lchain = 0
  /\ chains = NoChains /\ starts = 0 /\ issued = {} /\ decision = NoDecision
  /\ stored = NotStored /\ installs = 0 /\ startup = "none" /\ ops = 0
  /\ appReady = FALSE /\ allClosed = {}

\* The class used by itself: main.js is loaded and stays as it is, on an
\* arm64 machine whose runtime holds no container.
ShellOff ==
  /\ arch = "arm64" /\ container = "absent" /\ otherContainer = FALSE
  /\ ShellLoaded
  /\ launches = 0

\* A first launch: no state file and nothing extracted; whatever the user's
\* own runtime holds and whatever the package bundles.
Init ==
  /\ platform \in Platforms
  /\ stateFile = NoFile
  /\ clock = 0
  /\ systemPodman \in SystemRuntimes(platform)
  /\ podmanArchive \in {"missing", "good", "nobin"}
  /\ podmanDir = FALSE
  /\ binOnDisk = FALSE
  /\ imageTar \in {NoTar} \cup ImageRefs
  /\ images \in SUBSET ImageRefs
  /\ machines \in (IF NeedsMachine(platform) THEN MachineStates ELSE {NoMachines})
  /\ InstanceFresh
  /\ CallIdle
  /\ fullRun = FALSE
  /\ calls = 0
  /\ ShellOff
  /\ Alone

\* ------------------------------------------------------------------ helpers

Goto(l) == pc' = l
Emit(e) == events' = Append(events, e)
Enter(step) == steps' = Append(steps, step)
Save(state) ==
  /\ stateFile' = saveState(stateFile, state, clock)
  /\ saved' = Append(saved, state)

\* Throw with install() going on to its fourth step instead of its catch.
ThrowSwallowed(e) ==
  /\ err' = e
  /\ IF op = "install"
     THEN pc' = "install_step4" /\ result' = result
     ELSE pc' = "done" /\ result' = Rejected(e)

\* A promise rejection on its way out of the method: install() catches it,
\* the other methods reject with it.
Throw(e) ==
  /\ err' = e
  /\ IF op = "install"
     THEN pc' = "install_catch" /\ result' = result
     ELSE pc' = "done" /\ result' = Rejected(e)

\* install() has come back from the await of a provisioning step.
Done(step) ==
  stepsDone' = IF op = "install" THEN stepsDone \cup {step} ELSE stepsDone

\* The method returns normally: install() returns true, the ensure methods
\* return nothing.
Return(v) == pc' = "done" /\ result' = Resolved(v)

\* A public method is called on the idle instance.
Begin(method) ==
  /\ op = "none"
  /\ calls < MaxCalls
  /\ calls' = calls + 1
  /\ op' = method
  /\ fileAtCall' = stateFile

\* --------------------------------------------------------------- runCommand

\* The places where a method calls runCommand.
Sites ==
  {"csp_probe", "ipm_listName", "ipm_init", "ipm_listRunning", "ipm_start",
   "lci_images", "lci_load", "vi_version", "vi_images",
   "eil_images", "eil_load", "emr_listName", "emr_listRunning", "emr_start"}

\* The command each place runs.
CommandAt(l) ==
  CASE l = "csp_probe" -> Cmd(podmanPaths(platform)[probeIdx], Version)
    [] l \in {"ipm_listName", "emr_listName"} -> Cmd(podmanBin, MachineListName)
    [] l = "ipm_init" -> Cmd(podmanBin, MachineInit)
    [] l \in {"ipm_listRunning", "emr_listRunning"} -> Cmd(podmanBin, MachineListRunning)
    [] l \in {"ipm_start", "emr_start"} -> Cmd(podmanBin, MachineStart)
    [] l \in {"lci_images", "vi_images", "eil_images"} -> Cmd(podmanBin, Images)
    [] l \in {"lci_load", "eil_load"} -> Cmd(podmanBin, Load)
    [] l = "vi_version" -> Cmd(podmanBin, Version)

Started(c) == [bin |-> c.bin, verb |-> c.verb, st |-> "running", out |-> <<>>]

\* The last started child process has ended.
Ended(ok, out) ==
  [cmds EXCEPT ![Len(cmds)].st = IF ok THEN "ok" ELSE "failed",
               ![Len(cmds)].out = out]

\* runCommand started without the await of the command before it.
runCommand_execUnawaited ==
  /\ pc \in Sites
  /\ io' = [st |-> "running", cmd |-> CommandAt(pc)]
  /\ cmds' = Append(cmds, Started(CommandAt(pc)))
  /\ UNCHANGED <<world, stateFile, clock, instance, op, pc, probeIdx, err,
                 result, events, saved, steps, stepsDone, fileAtCall, faults,
                 fullRun, calls, app>>

\* runCommand(command): exec starts the child process and the caller awaits
\* the promise.
runCommand_exec ==
  /\ pc \in Sites /\ io.st = "idle"
  /\ io' = [st |-> "running", cmd |-> CommandAt(pc)]
  /\ cmds' = Append(cmds, Started(CommandAt(pc)))
  /\ UNCHANGED <<world, stateFile, clock, instance, op, pc, probeIdx, err,
                 result, events, saved, steps, stepsDone, fileAtCall, faults,
                 fullRun, calls, app>>

\* How the child process can end, TRUE for exit code zero: a command that
\* could have exited zero fails at most MaxFaults times in a call.
Outcomes(c) ==
  {ok \in BOOLEAN : IF ok THEN CanSucceed(c)
                    ELSE ~CanSucceed(c) \/ faults < MaxFaults}

\* exec's callback: the child process has ended, having changed the runtime if
\* it exited zero; the promise resolves with the trimmed standard output or
\* rejects.
callback(ok) ==
  /\ io' = Idle
  /\ cmds' = Ended(ok, IF ok THEN Stdout(io.cmd) ELSE <<>>)
  /\ machines' = IF ok THEN MachinesAfter(io.cmd) ELSE machines
  /\ images' = IF ok THEN ImagesAfter(io.cmd) ELSE images
  /\ faults' = IF ~ok /\ CanSucceed(io.cmd) THEN faults + 1 ELSE faults

\* The method awaits the command it started at place l.
Awaited(l) == pc = l /\ io.st = "running"

\* ------------------------------------------------- setupPodman and its callees

\* Where the caller of setupPodman goes on.
AfterSetup ==
  CASE op = "install" -> "install_step2"
    [] op = "ensureMachineRunning" -> "emr_listName"
    [] op = "ensureImageLoaded" -> "eil_images"

\* checkSystemPodman: the head of the loop over podmanPaths; past the last
\* candidate it returns false and setupPodman goes on to the bundled runtime.
checkSystemPodman_loop ==
  /\ pc = "csp_loop"
  /\ IF probeIdx <= Len(podmanPaths(platform))
     THEN Goto("csp_probe")
     ELSE Goto("sp_checkBundled")
  /\ UNCHANGED <<world, stateFile, clock, instance, op, io, probeIdx, err,
                 result, events, cmds, saved, steps, stepsDone, fileAtCall,
                 faults, fullRun, calls, app>>

\* checkSystemPodman with the loop going on after a candidate has answered.
checkSystemPodman_adoptGoesOn(ok) ==
  /\ systemPodmanPath' = IF ok THEN podmanPaths(platform)[probeIdx]
                         ELSE systemPodmanPath
  /\ probeIdx' = probeIdx + 1
  /\ IF ok /\ probeIdx = Len(podmanPaths(platform))
     THEN Goto("sp_system") ELSE Goto("csp_loop")

\* checkSystemPodman: success adopts the candidate and returns true; failure
\* goes on to the next candidate.
checkSystemPodman_adopt(ok) ==
  IF ok
  THEN /\ systemPodmanPath' = podmanPaths(platform)[probeIdx]
       /\ Goto("sp_system")
       /\ UNCHANGED probeIdx
  ELSE /\ probeIdx' = probeIdx + 1
       /\ Goto("csp_loop")
       /\ UNCHANGED systemPodmanPath

\* checkSystemPodman: the candidate's --version has ended.
checkSystemPodman_probed ==
  /\ Awaited("csp_probe")
  /\ \E ok \in Outcomes(io.cmd) :
       /\ callback(ok)
       /\ checkSystemPodman_adopt(ok)
  /\ UNCHANGED <<disk, stateFile, clock, podmanBin, op, err, result, events,
                 saved, steps, stepsDone, fileAtCall, fullRun, calls, app>>

\* setupPodman with the bundled runtime recorded although a system one answered.
setupPodman_systemAsBundled ==
  /\ pc = "sp_system"
  /\ Save([podmanSource |-> SrcBundled])
  /\ Goto(AfterSetup)
  /\ Done("podman")
  /\ UNCHANGED <<world, clock, instance, op, io, probeIdx, err, result, events,
                 cmds, steps, fileAtCall, faults, fullRun, calls, app>>

\* setupPodman: a system runtime was found.
setupPodman_system ==
  /\ pc = "sp_system"
  /\ podmanBin' = systemPodmanPath
  /\ Save([podmanSource |-> SrcSystem, podmanPath |-> systemPodmanPath])
  /\ Goto(AfterSetup)
  /\ Done("podman")
  /\ UNCHANGED <<world, clock, systemPodmanPath, op, io, probeIdx, err, result,
                 events, cmds, steps, fileAtCall, faults, fullRun, calls, app>>

\* fs.existsSync(this.podmanBin): the extracted binary is looked for where
\* this.podmanBin points.  An earlier setupPodman of the same instance may have
\* pointed it at a system location: an absolute one is a file if a runtime is
\* installed there, the bare command name is no file.
ExistsOnDisk(path) ==
  IF path = getPodmanBinPath(platform) THEN binOnDisk
  ELSE path # BarePodman /\ path \in systemPodman

\* setupPodman: no system runtime; an extracted bundled runtime is adopted,
\* otherwise the bundle is extracted.
setupPodman_checkBundled ==
  /\ pc = "sp_checkBundled"
  /\ IF ExistsOnDisk(podmanBin)
     THEN /\ Save([podmanSource |-> SrcBundled])
          /\ Goto(AfterSetup)
          /\ Done("podman")
     ELSE /\ Goto("ebp_start")
          /\ UNCHANGED <<stateFile, saved, stepsDone>>
  /\ UNCHANGED <<world, clock, instance, op, io, probeIdx, err, result, events,
                 cmds, steps, fileAtCall, faults, fullRun, calls, app>>

\* The error extractBundledPodman throws when the archive is missing: the
\* platform's install instructions.
PodmanRequired(p) ==
  CASE p = "win32"  -> "Podman is required but not installed. Please install Podman Desktop"
    [] p = "darwin" -> "Podman is required but not installed. Please install Podman using Homebrew"
    [] OTHER        -> "Podman is required but not installed. Please install Podman: sudo apt install podman"

ExtractFailed == "Failed to extract Podman: exit code 1"

\* extractBundledPodman making the extraction directory before it looks for
\* the archive.
extractBundledPodman_startMakesDir ==
  /\ pc = "ebp_start"
  /\ podmanDir' = TRUE
  /\ IF podmanArchive = "missing"
     THEN /\ Throw(PodmanRequired(platform))
          /\ UNCHANGED <<io, cmds>>
     ELSE /\ io' = [st |-> "running", cmd |-> Cmd(TarBin, TarExtract)]
          /\ cmds' = Append(cmds, Started(Cmd(TarBin, TarExtract)))
          /\ Goto("ebp_tar")
          /\ UNCHANGED <<err, result>>
  /\ UNCHANGED <<platform, systemPodman, podmanArchive, binOnDisk, imageTar,
                 images, machines,
                 stateFile, clock, instance, op, probeIdx, events, saved, steps,
                 stepsDone, fileAtCall, faults, fullRun, calls, app>>

\* extractBundledPodman: a missing archive throws; otherwise the extraction
\* directory is made and tar is spawned.
extractBundledPodman_start ==
  /\ pc = "ebp_start"
  /\ IF podmanArchive = "missing"
     THEN /\ Throw(PodmanRequired(platform))
          /\ UNCHANGED <<podmanDir, io, cmds>>
     ELSE /\ podmanDir' = TRUE
          /\ io' = [st |-> "running", cmd |-> Cmd(TarBin, TarExtract)]
          /\ cmds' = Append(cmds, Started(Cmd(TarBin, TarExtract)))
          /\ Goto("ebp_tar")
          /\ UNCHANGED <<err, result>>
  /\ UNCHANGED <<platform, systemPodman, podmanArchive, binOnDisk, imageTar,
                 images, machines,
                 stateFile, clock, instance, op, probeIdx, events, saved, steps,
                 stepsDone, fileAtCall, faults, fullRun, calls, app>>

\* fs.chmodSync(this.podmanBin, '755') returns only if the file exists; the
\* extraction is reached only with this.podmanBin naming no file, which the
\* archive may then put there.
ChmodWorks(path, extracted) == path = getPodmanBinPath(platform) /\ extracted

\* The exit codes of tar: zero, or nonzero at most MaxFaults times in a call.
TarCodes == IF faults < MaxFaults THEN {0, 1} ELSE {0}

\* extractBundledPodman: tar's 'close' event.  Exit code 0 marks the binary
\* executable (not on win32) and resolves; an exception of chmodSync is thrown
\* inside the event callback, where nothing settles the promise.  Another
\* exit code rejects.
extractBundledPodman_close ==
  /\ pc = "ebp_tar" /\ io.st = "running"
  /\ io' = Idle
  /\ \E code \in TarCodes :
       IF code = 0
       THEN /\ binOnDisk' = (binOnDisk \/ podmanArchive = "good")
            /\ cmds' = Ended(TRUE, <<>>)
            /\ IF platform = "win32" \/ ChmodWorks(podmanBin, binOnDisk')
               THEN Goto("sp_extracted") ELSE Goto("hung")
            /\ UNCHANGED <<err, result, faults>>
       ELSE /\ cmds' = Ended(FALSE, <<>>)
            /\ faults' = faults + 1
            /\ Throw(ExtractFailed)
            /\ UNCHANGED binOnDisk
  /\ UNCHANGED <<platform, systemPodman, podmanArchive, podmanDir, imageTar,
                 images, machines,
                 stateFile, clock, instance, op, probeIdx, events, saved, steps,
                 stepsDone, fileAtCall, fullRun, calls, app>>

\* setupPodman with nothing recorded after the extraction.
setupPodman_extractedUnsaved ==
  /\ pc = "sp_extracted"
  /\ Goto(AfterSetup)
  /\ Done("podman")
  /\ UNCHANGED <<world, stateFile, clock, instance, op, io, probeIdx, err,
                 result, events, cmds, saved, steps, fileAtCall, faults,
                 fullRun, calls, app>>

\* setupPodman: the bundle has been extracted.
setupPodman_extracted ==
  /\ pc = "sp_extracted"
  /\ Save([podmanSource |-> SrcBundled])
  /\ Goto(AfterSetup)
  /\ Done("podman")
  /\ UNCHANGED <<world, clock, instance, op, io, probeIdx, err, result, events,
                 cmds, steps, fileAtCall, faults, fullRun, calls, app>>

\* ------------------------------------------------------ initPodmanMachine

\* Where the caller of initPodmanMachine goes on: install() to its third
\* step; ensureMachineRunning returns.
initPodmanMachine_return ==
  /\ Done("machine")
  /\ IF op = "install"
     THEN Goto("install_step3") /\ UNCHANGED result
     ELSE Return(Undefined)

\* machineExists with a failing query taken for a machine that is there.
machineExistsOrFailed(ok, output) == ~ok \/ Includes(output, DefaultMachine)

\* .then(output => output.includes('podman-machine-default')).catch(() => false)
machineExists(ok, output) == ok /\ Includes(output, DefaultMachine)

\* .then(output => output.includes('true')).catch(() => false)
machineRunning(ok, output) == ok /\ Includes(output, <<"true">>)

\* machine list --format "{{.Name}}" has ended: without the default machine,
\* machine init is next.
initPodmanMachine_listedNames ==
  /\ Awaited("ipm_listName")
  /\ \E ok \in Outcomes(io.cmd) :
       /\ callback(ok)
       /\ IF machineExists(ok, Stdout(io.cmd))
          THEN Goto("ipm_listRunning") ELSE Goto("ipm_init")
  /\ UNCHANGED <<disk, stateFile, clock, instance, op, probeIdx, err, result,
                 events, saved, steps, stepsDone, fileAtCall, fullRun, calls, app>>

\* machine init has ended.
initPodmanMachine_inited ==
  /\ Awaited("ipm_init")
  /\ \E ok \in Outcomes(io.cmd) :
       /\ callback(ok)
       /\ IF ok
          THEN Goto("ipm_listRunning") /\ UNCHANGED <<err, result>>
          ELSE Throw(CommandError(io.cmd))
  /\ UNCHANGED <<disk, stateFile, clock, instance, op, probeIdx, events, saved,
                 steps, stepsDone, fileAtCall, fullRun, calls, app>>

\* machine list --format "{{.Running}}" has ended: with no machine running,
\* machine start is next.
initPodmanMachine_listedRunning ==
  /\ Awaited("ipm_listRunning")
  /\ \E ok \in Outcomes(io.cmd) :
       /\ callback(ok)
       /\ IF machineRunning(ok, Stdout(io.cmd))
          THEN initPodmanMachine_return
          ELSE Goto("ipm_start") /\ UNCHANGED <<result, stepsDone>>
  /\ UNCHANGED <<disk, stateFile, clock, instance, op, probeIdx, err, events,
                 saved, steps, fileAtCall, fullRun, calls, app>>

\* machine start has ended.
initPodmanMachine_started ==
  /\ Awaited("ipm_start")
  /\ \E ok \in Outcomes(io.cmd) :
       /\ callback(ok)
       /\ IF ok
          THEN initPodmanMachine_return /\ UNCHANGED err
          ELSE Throw(CommandError(io.cmd)) /\ UNCHANGED stepsDone
  /\ UNCHANGED <<disk, stateFile, clock, instance, op, probeIdx, events, saved,
                 steps, fileAtCall, fullRun, calls, app>>

\* ------------------------------------------------------ loadContainerImage

ImageTarMissingInstall ==
  "Bundled container image not found. Please download the full installer."

\* imageExists with the listing's answer ignored.
imageExistsNever(ok, output) == FALSE

\* .then(output => output.includes(this.imageName)).catch(() => false)
imageExists(ok, output) == ok /\ Includes(output, imageName)

\* images has ended: an image that is there ends the step.
loadContainerImage_listed ==
  /\ Awaited("lci_images")
  /\ \E ok \in Outcomes(io.cmd) :
       /\ callback(ok)
       /\ IF imageExists(ok, Stdout(io.cmd))
          THEN Goto("install_step4") /\ Done("image")
          ELSE Goto("lci_checkTar") /\ UNCHANGED stepsDone
  /\ UNCHANGED <<disk, stateFile, clock, instance, op, probeIdx, err, result,
                 events, saved, steps, fileAtCall, fullRun, calls, app>>

\* loadContainerImage going on to the load without looking for the archive.
loadContainerImage_checkTarLoads ==
  /\ pc = "lci_checkTar"
  /\ Emit(Event("image",
          "Loading container image (this may take a few minutes)...", 60))
  /\ Goto("lci_load")
  /\ UNCHANGED <<world, stateFile, clock, instance, op, io, probeIdx, err,
                 result, cmds, saved, steps, stepsDone, fileAtCall, faults,
                 fullRun, calls, app>>

\* The bundled image archive must exist; the second 'image' event precedes the
\* load.
loadContainerImage_checkTar ==
  /\ pc = "lci_checkTar"
  /\ IF imageTar = NoTar
     THEN Throw(ImageTarMissingInstall) /\ UNCHANGED events
     ELSE /\ Emit(Event("image",
                 "Loading container image (this may take a few minutes)...", 60))
          /\ Goto("lci_load")
          /\ UNCHANGED <<err, result>>
  /\ UNCHANGED <<world, stateFile, clock, instance, op, io, probeIdx, cmds,
                 saved, steps, stepsDone, fileAtCall, faults, fullRun, calls, app>>

\* load -i has ended.
loadContainerImage_loaded ==
  /\ Awaited("lci_load")
  /\ \E ok \in Outcomes(io.cmd) :
       /\ callback(ok)
       /\ IF ok
          THEN Goto("install_step4") /\ Done("image") /\ UNCHANGED <<err, result>>
          ELSE Throw(CommandError(io.cmd)) /\ UNCHANGED stepsDone
  /\ UNCHANGED <<disk, stateFile, clock, instance, op, probeIdx, events, saved,
                 steps, fileAtCall, fullRun, calls, app>>

\* ------------------------------------------------------ verifyInstallation

ImageNotFoundAfterLoading == "Container image not found after loading"

\* --version has ended.
verifyInstallation_versioned ==
  /\ Awaited("vi_version")
  /\ \E ok \in Outcomes(io.cmd) :
       /\ callback(ok)
       /\ IF ok
          THEN Goto("vi_images") /\ UNCHANGED <<err, result>>
          ELSE Throw(CommandError(io.cmd))
  /\ UNCHANGED <<disk, stateFile, clock, instance, op, probeIdx, events, saved,
                 steps, stepsDone, fileAtCall, fullRun, calls, app>>

\* images has ended: the listing must include 'avyaktha-mt5'.
verifyInstallation_listed ==
  /\ Awaited("vi_images")
  /\ \E ok \in Outcomes(io.cmd) :
       /\ callback(ok)
       /\ IF ok
          THEN IF Includes(Stdout(io.cmd), imageFragment)
               THEN /\ Goto("install_complete")
                    /\ Done("verify")
                    /\ fullRun' = (fullRun \/ RequiredSteps(platform) \subseteq stepsDone')
                    /\ UNCHANGED <<err, result>>
               ELSE /\ Throw(ImageNotFoundAfterLoading)
                    /\ UNCHANGED <<stepsDone, fullRun>>
          ELSE Throw(CommandError(io.cmd)) /\ UNCHANGED <<stepsDone, fullRun>>
  /\ UNCHANGED <<disk, stateFile, clock, instance, op, probeIdx, events, saved,
                 steps, fileAtCall, calls, app>>

\* ------------------------------------------------------------------ install

AlreadyInstalled == Event("complete", "Already installed", 100)
PodmanEvent == Event("podman", "Setting up container runtime...", 10)
MachineEvent == Event("machine", "Initializing Podman machine...", 30)
ImageEvent == Event("image", "Loading MT5 container image...", 50)
\* The 'verify' event with a progress below the 'image' events'.
VerifyEventLow == Event("verify", "Verifying installation...", 40)
VerifyEvent == Event("verify", "Verifying installation...", 90)
CompleteEvent == Event("complete", "Installation complete!", 100)
ErrorEvent(e) == Event("error", "Installation failed: " \o e, 0)

\* The short-circuit with a write of the state file added.
install_alreadyInstalledSaves ==
  /\ Emit(AlreadyInstalled)
  /\ Save([installed |-> TRUE, imageLoaded |-> TRUE])
  /\ Return(TRUE)

\* if (this.isInstalled()): one event, return true.
install_alreadyInstalled ==
  /\ Emit(AlreadyInstalled)
  /\ Return(TRUE)
  /\ UNCHANGED <<stateFile, saved>>

\* install(): with the installation recorded it reports and returns true;
\* otherwise it announces the first step and calls setupPodman.
install_begin ==
  /\ Begin("install")
  /\ IF isInstalled(stateFile)
     THEN /\ install_alreadyInstalled
          /\ UNCHANGED <<steps, probeIdx>>
     ELSE /\ Emit(PodmanEvent)
          /\ Enter("podman")
          /\ probeIdx' = 1
          /\ Goto("csp_loop")
          /\ UNCHANGED <<result, stateFile, saved>>
  /\ UNCHANGED <<world, clock, instance, io, err, cmds, stepsDone, faults,
                 fullRun>>

\* install() called on the class by itself.
install_call == install_begin /\ UNCHANGED app

\* install_step2 resuming where an earlier run got to: with a runtime recorded
\* in the state file the machine step is passed over.
install_step2Resuming ==
  /\ pc = "install_step2"
  /\ IF NeedsMachine(platform) /\ "podmanSource" \notin DOMAIN getState(fileAtCall)
     THEN /\ Emit(MachineEvent)
          /\ Enter("machine")
          /\ Goto("ipm_listName")
     ELSE /\ Goto("install_step3")
          /\ UNCHANGED <<events, steps>>
  /\ UNCHANGED <<world, stateFile, clock, instance, op, io, probeIdx, err,
                 result, cmds, saved, stepsDone, fileAtCall, faults, fullRun,
                 calls, app>>

\* Step 2, on darwin and win32 only: initPodmanMachine.
install_step2 ==
  /\ pc = "install_step2"
  /\ IF NeedsMachine(platform)
     THEN /\ Emit(MachineEvent)
          /\ Enter("machine")
          /\ Goto("ipm_listName")
     ELSE /\ Goto("install_step3")
          /\ UNCHANGED <<events, steps>>
  /\ UNCHANGED <<world, stateFile, clock, instance, op, io, probeIdx, err,
                 result, cmds, saved, stepsDone, fileAtCall, faults, fullRun,
                 calls, app>>

\* Step 3: loadContainerImage.
install_step3 ==
  /\ pc = "install_step3"
  /\ Emit(ImageEvent)
  /\ Enter("image")
  /\ Goto("lci_images")
  /\ UNCHANGED <<world, stateFile, clock, instance, op, io, probeIdx, err,
                 result, cmds, saved, stepsDone, fileAtCall, faults, fullRun,
                 calls, app>>

\* Step 4: verifyInstallation.
install_step4 ==
  /\ pc = "install_step4"
  /\ Emit(VerifyEvent)
  /\ Enter("verify")
  /\ Goto("vi_version")
  /\ UNCHANGED <<world, stateFile, clock, instance, op, io, probeIdx, err,
                 result, cmds, saved, stepsDone, fileAtCall, faults, fullRun,
                 calls, app>>

\* Done: the installation is recorded and reported; install() returns true.
install_complete ==
  /\ pc = "install_complete"
  /\ Save([installed |-> TRUE, imageLoaded |-> TRUE, installedAt |-> clock])
  /\ Emit(CompleteEvent)
  /\ Enter("complete")
  /\ Return(TRUE)
  /\ UNCHANGED <<world, clock, instance, op, io, probeIdx, err, cmds, stepsDone,
                 fileAtCall, faults, fullRun, calls, app>>

\* The catch with the installation recorded all the same.
install_catchSaves ==
  /\ pc = "install_catch"
  /\ Save([installed |-> TRUE, imageLoaded |-> TRUE, installedAt |-> clock])
  /\ Emit(ErrorEvent(err))
  /\ pc' = "done"
  /\ result' = Rejected(err)
  /\ UNCHANGED <<world, clock, instance, op, io, probeIdx, err, cmds, steps,
                 stepsDone, fileAtCall, faults, fullRun, calls, app>>

\* catch (error): the failure is reported and thrown on.
install_catch ==
  /\ pc = "install_catch"
  /\ Emit(ErrorEvent(err))
  /\ pc' = "done"
  /\ result' = Rejected(err)
  /\ UNCHANGED <<world, stateFile, clock, instance, op, io, probeIdx, err, cmds,
                 saved, steps, stepsDone, fileAtCall, faults, fullRun, calls, app>>

\* -------------------------------------------------------- ensureImageLoaded

ImageTarMissing == "Bundled container image not found."

\* ensureImageLoaded(): setupPodman first.
ensureImageLoaded_call ==
  /\ Begin("ensureImageLoaded")
  /\ probeIdx' = 1
  /\ Goto("csp_loop")
  /\ UNCHANGED <<world, stateFile, clock, instance, io, err, result, events,
                 cmds, saved, steps, stepsDone, faults, fullRun, app>>

\* images has ended: an image that is there ends the method.
ensureImageLoaded_listed ==
  /\ Awaited("eil_images")
  /\ \E ok \in Outcomes(io.cmd) :
       /\ callback(ok)
       /\ IF imageExists(ok, Stdout(io.cmd))
          THEN Return(Undefined)
          ELSE Goto("eil_checkTar") /\ UNCHANGED result
  /\ UNCHANGED <<disk, stateFile, clock, instance, op, probeIdx, err, events,
                 saved, steps, stepsDone, fileAtCall, fullRun, calls, app>>

\* The bundled image archive must exist.
ensureImageLoaded_checkTar ==
  /\ pc = "eil_checkTar"
  /\ IF imageTar = NoTar
     THEN Throw(ImageTarMissing)
     ELSE Goto("eil_load") /\ UNCHANGED <<err, result>>
  /\ UNCHANGED <<world, stateFile, clock, instance, op, io, probeIdx, events,
                 cmds, saved, steps, stepsDone, fileAtCall, faults, fullRun,
                 calls, app>>

\* load -i has ended.
ensureImageLoaded_loaded ==
  /\ Awaited("eil_load")
  /\ \E ok \in Outcomes(io.cmd) :
       /\ callback(ok)
       /\ IF ok
          THEN Return(Undefined) /\ UNCHANGED err
          ELSE Throw(CommandError(io.cmd))
  /\ UNCHANGED <<disk, stateFile, clock, instance, op, probeIdx, events, saved,
                 steps, stepsDone, fileAtCall, fullRun, calls, app>>

\* ----------------------------------------------------- ensureMachineRunning

\* ensureMachineRunning(): nothing to do on linux; otherwise setupPodman first.
ensureMachineRunning_call ==
  /\ Begin("ensureMachineRunning")
  /\ IF NeedsMachine(platform)
     THEN probeIdx' = 1 /\ Goto("csp_loop") /\ UNCHANGED result
     ELSE Return(Undefined) /\ UNCHANGED probeIdx
  /\ UNCHANGED <<world, stateFile, clock, instance, io, err, events, cmds,
                 saved, steps, stepsDone, faults, fullRun, app>>

\* machine list --format "{{.Name}}" has ended: without the default machine
\* the method hands over to initPodmanMachine.
ensureMachineRunning_listedNames ==
  /\ Awaited("emr_listName")
  /\ \E ok \in Outcomes(io.cmd) :
       /\ callback(ok)
       /\ IF machineExists(ok, Stdout(io.cmd))
          THEN Goto("emr_listRunning") ELSE Goto("ipm_listName")
  /\ UNCHANGED <<disk, stateFile, clock, instance, op, probeIdx, err, result,
                 events, saved, steps, stepsDone, fileAtCall, fullRun, calls, app>>

\* machine list --format "{{.Running}}" has ended.
ensureMachineRunning_listedRunning ==
  /\ Awaited("emr_listRunning")
  /\ \E ok \in Outcomes(io.cmd) :
       /\ callback(ok)
       /\ IF machineRunning(ok, Stdout(io.cmd))
          THEN Return(Undefined)
          ELSE Goto("emr_start") /\ UNCHANGED result
  /\ UNCHANGED <<disk, stateFile, clock, instance, op, probeIdx, err, events,
                 saved, steps, stepsDone, fileAtCall, fullRun, calls, app>>

\* machine start has ended.
ensureMachineRunning_started ==
  /\ Awaited("emr_start")
  /\ \E ok \in Outcomes(io.cmd) :
       /\ callback(ok)
       /\ IF ok
          THEN Return(Undefined) /\ UNCHANGED err
          ELSE Throw(CommandError(io.cmd))
  /\ UNCHANGED <<disk, stateFile, clock, instance, op, probeIdx, events, saved,
                 steps, stepsDone, fileAtCall, fullRun, calls, app>>

\* ------------------------------------------------------------ the caller

\* The caller has the method's result; the instance is ready for another call.
Returned ==
  /\ pc = "done"
  /\ ResetCall
  /\ UNCHANGED <<world, stateFile, clock, instance, fullRun, calls, app>>

\* The application is quit, after a call has settled or while the extraction
\* never settles, and launched again: a new process and a new SilentInstaller;
\* the disk and the runtime stay as they are.
Relaunch ==
  /\ pc \in {"done", "hung"}
  /\ ResetCall
  /\ podmanBin' = getPodmanBinPath(platform)
  /\ systemPodmanPath' = Undefined
  /\ UNCHANGED <<world, stateFile, clock, fullRun, calls, app>>

\* The application: main.js calls install() when isInstalled() is false, and
\* none of the ensure methods.
Next ==
  \/ install_call
  \/ install_step2
  \/ install_step3
  \/ install_step4
  \/ install_complete
  \/ install_catch
  \/ runCommand_exec
  \/ checkSystemPodman_loop
  \/ checkSystemPodman_probed
  \/ setupPodman_system
  \/ setupPodman_checkBundled
  \/ setupPodman_extracted
  \/ extractBundledPodman_start
  \/ extractBundledPodman_close
  \/ initPodmanMachine_listedNames
  \/ initPodmanMachine_inited
  \/ initPodmanMachine_listedRunning
  \/ initPodmanMachine_started
  \/ loadContainerImage_listed
  \/ loadContainerImage_checkTar
  \/ loadContainerImage_loaded
  \/ verifyInstallation_versioned
  \/ verifyInstallation_listed
  \/ Returned
  \/ Relaunch

Spec == Init /\ [][Next]_vars

\* Every public method of the class, called in any order.
NextApi ==
  \/ Next
  \/ ensureImageLoaded_call
  \/ ensureImageLoaded_listed
  \/ ensureImageLoaded_checkTar
  \/ ensureImageLoaded_loaded
  \/ ensureMachineRunning_call
  \/ ensureMachineRunning_listedNames
  \/ ensureMachineRunning_listedRunning
  \/ ensureMachineRunning_started

SpecApi == Init /\ [][NextApi]_vars

\* ------------------------------------------------- the state store by itself

\* The objects a state file of an earlier version, or an edited one, can hold.
FlagChoices(k) == {EmptyObject} \cup {[x \in {k} |-> v] : v \in BOOLEAN}
SourceChoices ==
  {EmptyObject} \cup {[x \in {"podmanSource"} |-> v] : v \in {SrcSystem, SrcBundled}}
StoredObjects ==
  {Spread(Spread(a, b), c) : a \in FlagChoices("installed"),
                             b \in FlagChoices("imageLoaded"),
                             c \in SourceChoices}
Files == {NoFile, Corrupt} \cup {Json(o) : o \in StoredObjects}

\* The arguments the class passes to saveState.
Partials ==
  {[installed |-> TRUE, imageLoaded |-> TRUE, installedAt |-> clock],
   [podmanSource |-> SrcBundled],
   [podmanSource |-> SrcSystem, podmanPath |-> podmanPaths(platform)[1]]}

\* Any state file, on a linux machine with nothing else on it.
InitStore ==
  /\ platform = "linux"
  /\ stateFile \in Files
  /\ clock = 0
  /\ systemPodman = {}
  /\ podmanArchive = "missing"
  /\ podmanDir = FALSE
  /\ binOnDisk = FALSE
  /\ imageTar = NoTar
  /\ images = {}
  /\ machines = NoMachines
  /\ InstanceFresh
  /\ CallIdle
  /\ fullRun = FALSE
  /\ calls = 0
  /\ ShellOff
  /\ Alone

\* saveState(state), called by itself.
saveState_call ==
  /\ \E state \in Partials :
       /\ stateFile' = saveState(stateFile, state, clock)
       /\ saved' = << state >>
  /\ op' = "saveState"
  /\ result' = Pending
  /\ UNCHANGED <<world, clock, instance, pc, io, probeIdx, err, events, cmds,
                 steps, stepsDone, fileAtCall, faults, fullRun, calls, app>>

\* isInstalled(), called by itself.
isInstalled_call ==
  /\ op' = "isInstalled"
  /\ result' = Resolved(isInstalled(stateFile))
  /\ UNCHANGED <<world, stateFile, clock, instance, pc, io, probeIdx, err,
                 events, cmds, saved, steps, stepsDone, fileAtCall, faults,
                 fullRun, calls, app>>

\* Time passes.
Tick ==
  /\ clock < MaxClock
  /\ clock' = clock + 1
  /\ UNCHANGED <<world, stateFile, instance, call, fullRun, calls, app>>

NextStore ==
  \/ saveState_call
  \/ isInstalled_call
  \/ Tick

SpecStore == InitStore /\ [][NextStore]_vars

\* ------------------------------------------------------------------ main.js

\* The launches of the application.
MaxLaunches == 2

\* The tray menu items clicked in one process.
MaxOps == 1

\* What JavaScript takes for true in if (state.podmanPath), if (!runtime).
Truthy(v) == v # Undefined /\ v # ""

\* getPodmanPath's commonPaths.
commonPaths ==
  << "/opt/homebrew/bin/podman", "/usr/local/bin/podman", "/opt/podman/bin/podman" >>

\* installer.getPodmanPath(): the recorded path, else the extracted binary if
\* it exists, else the first common location that exists, else 'podman'.
getPodmanPath ==
  LET state == getState(stateFile)
      found == {i \in DOMAIN commonPaths : ExistsOnDisk(commonPaths[i])}
  IN  IF "podmanPath" \in DOMAIN state /\ Truthy(state.podmanPath)
      THEN state.podmanPath
      ELSE IF ExistsOnDisk(podmanBin) THEN podmanBin
      ELSE IF found # {}
           THEN commonPaths[CHOOSE i \in found : \A j \in found : i <= j]
           ELSE BarePodman

\* IsRunning with an empty listing taken for a running container.
IsRunningOrEmpty(stdout) == Trim(stdout) \in {containerName, <<>>}

\* checkContainerStatus's verdict: stdout.trim() === CONFIG.containerName.
IsRunning(stdout) == Trim(stdout) = containerName

\* What exec hands its callback as stdout.
LStdout(ok) == IF ok THEN PsOutput(container, otherContainer) ELSE <<>>

\* updateTrayMenu's statusText.
StatusText(running) == IF running THEN "Running" ELSE "Stopped"

\* updateTrayMenu(): nothing without a tray, otherwise the menu is built anew
\* from isContainerRunning.
updateTrayMenu(running) ==
  tray' = IF tray = "none" THEN tray ELSE StatusText(running)

\* A decision taken on isContainerRunning, and where that value came from.
Decided(what, value, from) == [what |-> what, value |-> value, from |-> from]

\* updateTrayMenu together with the record of its decision.
TrayUpdated(running, from) ==
  /\ updateTrayMenu(running)
  /\ decision' = IF tray = "none" THEN decision
                 ELSE Decided("tray", running, from)

\* createTray() and createWindow() at the end of the whenReady handler: the
\* tray menu and the page are chosen by isContainerRunning.
TrayAndWindow(running, from) ==
  /\ tray' = StatusText(running)
  /\ mainWindow' = IF running THEN "novnc" ELSE "index"
  /\ decision' = Decided("window", running, from)

\* The installer's variables other than the count of failed commands.
installerRest ==
  <<world, stateFile, clock, instance, op, pc, io, probeIdx, err, result,
    events, cmds, saved, steps, stepsDone, fileAtCall, fullRun, calls>>

\* A lifecycle function is called and runs up to its exec: getContainerRuntime
\* resolves with podmanBin, which is never empty, and the command is issued.
Called(bin, f, l, verb) ==
  /\ Truthy(bin)
  /\ fn' = f /\ lpc' = l /\ lret' = "none" /\ lchain' = 0
  /\ lio' = [st |-> "running", cmd |-> Cmd(bin, verb)]
  /\ lcmds' = << Started(Cmd(bin, verb)) >>
  /\ issued' = issued \cup {verb}

\* The function being executed issues a further command.
LExec(l, verb) ==
  /\ lpc' = l
  /\ lio' = [st |-> "running", cmd |-> Cmd(mainPodmanBin, verb)]
  /\ lcmds' = Append(lcmds, Started(Cmd(mainPodmanBin, verb)))
  /\ issued' = issued \cup {verb}

\* The awaited child process has ended and the function returns.
LReturned(ok, out, ret) ==
  /\ lpc' = "returned" /\ lret' = ret /\ lio' = Idle
  /\ lcmds' = [lcmds EXCEPT ![Len(lcmds)].st = IF ok THEN "ok" ELSE "failed",
                            ![Len(lcmds)].out = out]

\* A command that could have exited zero and did not counts as a fault.
Faulted(c, ok) ==
  faults' = IF ~ok /\ CanSucceed(c) THEN faults + 1 ELSE faults

LAwaited(l) == lpc = l /\ lio.st = "running"

Bool(b) == IF b THEN "true" ELSE "false"

\* The state file a completed install() leaves behind.
InstalledFile(part) ==
  saveState(saveState(NoFile, part, 0),
            [installed |-> TRUE, imageLoaded |-> TRUE, installedAt |-> 0], 0)

HomebrewPodman == podmanPaths("darwin")[1]

\* A launch of the application on a machine where it was never run, or where
\* an earlier version of the disk and of the runtime has seen it installed:
\* since then the user may have removed the runtime, and the container may be
\* there in any state as long as some runtime is there to hold it.
InitShell ==
  /\ platform \in {"darwin", "linux"}
  /\ clock = 0
  /\ systemPodman \in {{}, {HomebrewPodman}}
  /\ podmanArchive \in {"missing", "good"}
  /\ imageTar \in {NoTar, imageName}
  /\ images \in {{}, {imageName}}
  /\ machines \in (IF NeedsMachine(platform)
                   THEN {NoMachines, [m \in {DefaultMachine} |-> TRUE]}
                   ELSE {NoMachines})
  /\ \/ stateFile = NoFile /\ podmanDir = FALSE /\ binOnDisk = FALSE
     \/ /\ stateFile = InstalledFile([podmanSource |-> SrcBundled])
        /\ podmanDir = TRUE /\ binOnDisk = TRUE
     \/ /\ stateFile = InstalledFile([podmanSource |-> SrcSystem,
                                      podmanPath |-> HomebrewPodman])
        /\ podmanDir = FALSE /\ binOnDisk = FALSE
  /\ InstanceFresh
  /\ CallIdle
  /\ fullRun = FALSE
  /\ calls = 0
  /\ arch = "arm64"
  /\ container \in {"absent", "stopped", "running"}
  /\ otherContainer \in BOOLEAN
  /\ (container # "absent" \/ otherContainer) => (systemPodman # {} \/ binOnDisk)
  /\ ShellLoaded
  /\ launches = 1
  /\ Alone

\* The handler is over: the application is ready and waits for the user.
Ready == task' = "none" /\ main' = "ready"

\* app.whenReady().then(...): the setup window is shown and the installer is
\* made; without a recorded installation install() is called, with one the
\* runtime's path is taken from the installer and the container's status
\* checked.
whenReady ==
  /\ main = "loaded"
  /\ task' = "whenReady"
  /\ mainWindow' = "install"
  /\ IF ~isInstalled(stateFile)
     THEN /\ install_begin
          /\ main' = "await_install"
          /\ installs' = installs + 1
          /\ UNCHANGED <<mainPodmanBin, fn, lpc, lio, lcmds, lret, lchain,
                         issued>>
     ELSE /\ mainPodmanBin' = getPodmanPath
          /\ Called(getPodmanPath, "checkContainerStatus", "ps", Ps)
          /\ main' = "startup_check"
          /\ UNCHANGED <<installerRest, faults, installs>>
  /\ UNCHANGED <<runtime, isContainerRunning, tray, dialogs, chains, starts,
                 decision, stored, startup, launches, ops>>
  /\ UNCHANGED <<race, windows>>

\* The container once the process is gone: the stop of before-quit and the
\* commands still in flight may or may not have had their effect.
AfterQuit(stopping) ==
  {container}
    \cup (IF stopping /\ container = "running" /\ BinRuns(mainPodmanBin)
          THEN {"stopped"} ELSE {})
    \cup (IF \E k \in DOMAIN chains :
               /\ chains[k].st = "run"
               /\ CanSucceed(Cmd(chains[k].bin, RunDetached))
          THEN {"running"} ELSE {})
    \cup (IF \E k \in DOMAIN chains :
               /\ chains[k].st = "rm"
               /\ container # "absent" /\ BinRuns(chains[k].bin)
          THEN {"absent"} ELSE {})

\* before-quit stopping the container whatever isContainerRunning says.
beforeQuit_stopsAlways == Truthy(mainPodmanBin)

\* before-quit: if (isContainerRunning && podmanBin)
beforeQuit_stops == isContainerRunning /\ Truthy(mainPodmanBin)

\* app.quit(): the before-quit handler issues a stop, not awaited, if
\* isContainerRunning says the container runs; the process ends.
Quit ==
  LET stopping == beforeQuit_stops
  IN  /\ issued' = IF stopping THEN issued \cup {Stop} ELSE issued
      /\ decision' = Decided("quit", isContainerRunning, stored.by)
      /\ container' \in AfterQuit(stopping)
      /\ chains' = NoChains
      /\ task' = "none" /\ main' = "quit"

\* window-all-closed quitting whether or not the application is ready.
windowAllClosed_quitsAlways(ready) == TRUE

\* window-all-closed: if (appReady) app.quit()
windowAllClosed_quits(ready) == ready

\* A window-all-closed event as its handler has dealt with it.
AllClosed(window, ready) ==
  [window |-> window, ready |-> ready, quit |-> windowAllClosed_quits(ready)]

\* mainWindow.destroy(): the only window goes and window-all-closed is handled
\* before destroy() returns, with appReady as it is then; destroy() of a
\* window that is destroyed already, or of none, does nothing.
WindowDestroyed ==
  IF mainWindow \in {"none", "destroyed"} THEN {}
  ELSE {AllClosed(IF mainWindow = "install" THEN "install" ELSE "main",
                  appReady)}

\* The end of the whenReady handler: the setup window is destroyed, then
\* createTray(), createWindow() and appReady = true.  Had the handler of
\* window-all-closed called app.quit(), the process would end instead of
\* waiting for the user.
Finish(from) ==
  /\ allClosed' = allClosed \cup WindowDestroyed
  /\ appReady' = TRUE
  /\ IF \E e \in WindowDestroyed : e.quit
     THEN /\ Quit
          /\ UNCHANGED <<tray, mainWindow>>
     ELSE /\ TrayAndWindow(isContainerRunning, from)
          /\ Ready
          /\ UNCHANGED <<container, chains, issued>>

\* install() has resolved: the runtime's path is taken from the installer, the
\* setup window destroyed, the tray and the main window created.
whenReady_installed ==
  /\ main = "await_install" /\ pc = "done" /\ result.st = "resolved"
  /\ mainPodmanBin' = getPodmanPath
  /\ Finish(stored.by)
  /\ ResetCall
  /\ UNCHANGED <<world, stateFile, clock, instance, fullRun, calls, arch,
                 otherContainer, isContainerRunning, dialogs, fn, lpc, lio,
                 lcmds, lret, lchain, starts, stored, installs, startup,
                 launches, ops>>
  /\ UNCHANGED race

InstallationFailed == "Installation Failed"

\* install() has rejected: the error box, then app.quit().
whenReady_failed ==
  /\ main = "await_install" /\ pc = "done" /\ result.st = "rejected"
  /\ dialogs' = dialogs \cup {InstallationFailed}
  /\ Quit
  /\ ResetCall
  /\ UNCHANGED <<world, stateFile, clock, instance, fullRun, calls, arch,
                 otherContainer, isContainerRunning, mainPodmanBin, mainWindow,
                 tray, fn, lpc, lio, lcmds, lret, lchain, starts, stored,
                 installs, startup, launches, ops>>
  /\ UNCHANGED <<race, windows>>

\* The first status check of a launch with the installation recorded has
\* come back: a container that is not running is started, and either way the
\* status is checked once more.
startup_checked ==
  /\ main = "startup_check" /\ LAwaited("ps")
  /\ \E ok \in Outcomes(lio.cmd) :
       LET running == IsRunning(LStdout(ok))
       IN  /\ isContainerRunning' = running
           /\ stored' = Stored("check", ok, LStdout(ok), container = "running")
           /\ Faulted(lio.cmd, ok)
           /\ IF running
              THEN /\ Called(mainPodmanBin, "checkContainerStatus", "ps", Ps)
                   /\ main' = "startup_recheck"
                   /\ startup' = "running"
              ELSE /\ Called(mainPodmanBin, "startContainer", "check1", Ps)
                   /\ main' = "startup_start"
                   /\ startup' = "started"
  /\ UNCHANGED <<installerRest, runtime, mainPodmanBin, mainWindow, tray,
                 dialogs, task, chains, starts, decision, installs, launches,
                 ops>>
  /\ UNCHANGED <<race, windows>>

\* The five seconds after startContainer are over: the status is checked again.
startup_settled ==
  /\ main = "startup_settle"
  /\ Called(mainPodmanBin, "checkContainerStatus", "ps", Ps)
  /\ main' = "startup_recheck"
  /\ UNCHANGED <<installerRest, faults, runtime, isContainerRunning,
                 mainPodmanBin, mainWindow, tray, dialogs, task, chains, starts,
                 decision, stored, installs, startup, launches, ops>>
  /\ UNCHANGED <<race, windows>>

\* The second status check of the launch has come back.
startup_rechecked ==
  /\ main = "startup_recheck" /\ LAwaited("ps")
  /\ \E ok \in Outcomes(lio.cmd) :
       /\ isContainerRunning' = IsRunning(LStdout(ok))
       /\ stored' = Stored("check", ok, LStdout(ok), container = "running")
       /\ Faulted(lio.cmd, ok)
       /\ LReturned(ok, LStdout(ok), Bool(IsRunning(LStdout(ok))))
  /\ main' = "startup_finish"
  /\ UNCHANGED <<installerRest, runtime, mainPodmanBin, mainWindow, tray,
                 dialogs, task, fn, lchain, chains, starts, issued, decision,
                 installs, startup, launches, ops>>
  /\ UNCHANGED <<race, windows>>

\* Half a second later the startup window is destroyed, the tray and the main
\* window created.
startup_finished ==
  /\ main = "startup_finish"
  /\ Finish(stored.by)
  /\ UNCHANGED <<installerRest, faults, arch, otherContainer,
                 isContainerRunning, mainPodmanBin, dialogs, fn, lpc, lio,
                 lcmds, lret, lchain, starts, stored, installs, startup,
                 launches, ops>>
  /\ UNCHANGED race

\* --------------------------------------------------------- startContainer

\* A removal followed by a launch, started by startContainer and not awaited.
Chain(bin) == [st |-> "rm", bin |-> bin, rm |-> "running", run |-> "none"]

Exit(ok) == IF ok THEN "ok" ELSE "failed"

\* Where the handler that awaited startContainer goes on.
AfterStart ==
  /\ main' = IF main = "startup_start" THEN "startup_settle" ELSE "ready"
  /\ task' = IF main = "startup_start" THEN task ELSE "none"

\* startContainer with the launch spawned at once, next to the removal.
startContainer_removeAndRun(id) ==
  /\ chains' = [k \in (DOMAIN chains) \cup {id} |->
                  IF k = id
                  THEN [Chain(mainPodmanBin) EXCEPT !.run = "running"]
                  ELSE chains[k]]
  /\ issued' = issued \cup {RmForce, RunDetached}

\* The chains that are not over yet.
Live == {k \in DOMAIN chains : chains[k].st # "over"}

\* startContainer: exec of rm -f; its callback will spawn the launch.  The
\* chains that are over are forgotten.
startContainer_remove(id) ==
  /\ chains' = [k \in Live \cup {id} |->
                  IF k = id THEN Chain(mainPodmanBin) ELSE chains[k]]
  /\ issued' = issued \cup {RmForce}

\* startContainer never finding the container running already.
startContainer_alreadyRunningNever(running) == FALSE

\* startContainer holding back while another call's removal or launch is
\* under way.
startContainer_alreadyRunningOrStarting(running) == running \/ Live # {}

\* startContainer: if (await checkContainerStatus())
startContainer_alreadyRunning(running) == running

\* startContainer's first status check has come back: a running container
\* makes it return true; otherwise the removal is started and the function
\* waits three seconds.
startContainer_checked ==
  /\ fn = "startContainer" /\ LAwaited("check1")
  /\ \E ok \in Outcomes(lio.cmd) :
       LET running == IsRunning(LStdout(ok))
       IN  /\ isContainerRunning' = running
           /\ stored' = Stored("check", ok, LStdout(ok), container = "running")
           /\ Faulted(lio.cmd, ok)
           /\ lio' = Idle
           /\ lcmds' = [lcmds EXCEPT ![Len(lcmds)].st = Exit(ok),
                                     ![Len(lcmds)].out = LStdout(ok)]
           /\ IF startContainer_alreadyRunning(running)
              THEN /\ lpc' = "returned" /\ lret' = "true"
                   /\ AfterStart
                   /\ UNCHANGED <<lchain, chains, starts, issued>>
              ELSE /\ lpc' = "delay"
                   /\ starts' = starts + 1
                   /\ lchain' = starts + 1
                   /\ startContainer_remove(starts + 1)
                   /\ UNCHANGED <<lret, main, task>>
  /\ UNCHANGED <<installerRest, runtime, mainPodmanBin, mainWindow, tray,
                 dialogs, fn, decision, installs, startup, launches, ops>>
  /\ UNCHANGED <<race, windows>>

\* The three seconds are over: the status is checked again.
startContainer_delayed ==
  /\ fn = "startContainer" /\ lpc = "delay"
  /\ LExec("check2", Ps)
  /\ UNCHANGED <<installerRest, faults, runtime, isContainerRunning,
                 mainPodmanBin, mainWindow, tray, dialogs, task, main, fn, lret,
                 lchain, chains, starts, decision, stored, installs, startup,
                 launches, ops>>
  /\ UNCHANGED <<race, windows>>

\* startContainer returning true whenever its launch has exited zero.
startContainer_resultByLaunch(running) ==
  Bool(lchain \in DOMAIN chains /\ chains[lchain].run = "ok")

\* What startContainer returns: isContainerRunning as the second status check
\* has just set it.
startContainer_result(running) == Bool(running)

\* The second status check has come back: the tray menu is updated and the
\* function returns isContainerRunning.
startContainer_rechecked ==
  /\ fn = "startContainer" /\ LAwaited("check2")
  /\ \E ok \in Outcomes(lio.cmd) :
       LET running == IsRunning(LStdout(ok))
       IN  /\ isContainerRunning' = running
           /\ stored' = Stored("check", ok, LStdout(ok), container = "running")
           /\ Faulted(lio.cmd, ok)
           /\ TrayUpdated(running, "check")
           /\ LReturned(ok, LStdout(ok), startContainer_result(running))
  /\ AfterStart
  /\ UNCHANGED <<installerRest, runtime, mainPodmanBin, mainWindow, dialogs, fn,
                 lchain, chains, starts, issued, installs, startup, launches,
                 ops>>
  /\ UNCHANGED <<race, windows>>

\* How a removal can end: rm -f of a container that is not there fails in
\* some versions of the runtime.
RmOutcomes(c) ==
  Outcomes(c) \cup (IF container = "absent" THEN {FALSE} ELSE {})

\* The callback of rm -f, whatever the exit: the launch is spawned.
chain_removed(k) ==
  /\ chains[k].st = "rm"
  /\ \E ok \in RmOutcomes(Cmd(chains[k].bin, RmForce)) :
       /\ container' = IF ok THEN "absent" ELSE container
       /\ faults' = IF ~ok /\ BinRuns(chains[k].bin) /\ container # "absent"
                    THEN faults + 1 ELSE faults
       /\ chains' = [chains EXCEPT ![k].st = "run", ![k].rm = Exit(ok),
                                   ![k].run = "running"]
  /\ issued' = issued \cup {RunDetached}
  /\ UNCHANGED <<installerRest, arch, otherContainer, isContainerRunning,
                 mainPodmanBin, mainWindow, tray, dialogs, task, main, fn, lpc,
                 lio, lcmds, lret, lchain, starts, decision, stored, installs,
                 startup, launches, ops>>
  /\ UNCHANGED <<race, windows>>

\* The launch has closed and nothing looks at the status.
chain_closedUnchecked(k) ==
  /\ chains[k].st = "run"
  /\ Truthy(mainPodmanBin)
  /\ \E ok \in Outcomes(Cmd(chains[k].bin, RunDetached)) :
       /\ container' = IF ok THEN "running" ELSE container
       /\ Faulted(Cmd(chains[k].bin, RunDetached), ok)
       /\ chains' = [chains EXCEPT ![k].st = "over", ![k].run = Exit(ok)]
  /\ UNCHANGED <<installerRest, arch, otherContainer, isContainerRunning,
                 mainPodmanBin, mainWindow, tray, dialogs, task, main, fn, lpc,
                 lio, lcmds, lret, lchain, starts, issued, decision, stored,
                 installs, startup, launches, ops>>
  /\ UNCHANGED <<race, windows>>

\* The launch has closed: the 'close' handler checks the status.
chain_closed(k) ==
  /\ chains[k].st = "run"
  /\ Truthy(mainPodmanBin)
  /\ \E ok \in Outcomes(Cmd(chains[k].bin, RunDetached)) :
       /\ container' = IF ok THEN "running" ELSE container
       /\ Faulted(Cmd(chains[k].bin, RunDetached), ok)
       /\ chains' = [chains EXCEPT ![k].st = "ps", ![k].run = Exit(ok)]
  /\ issued' = issued \cup {Ps}
  /\ UNCHANGED <<installerRest, arch, otherContainer, isContainerRunning,
                 mainPodmanBin, mainWindow, tray, dialogs, task, main, fn, lpc,
                 lio, lcmds, lret, lchain, starts, decision, stored, installs,
                 startup, launches, ops>>
  /\ UNCHANGED <<race, windows>>

UncaughtException == "A JavaScript error occurred in the main process"

\* The launch could not be spawned: the child process emits 'error', which
\* nothing listens to, and 'close' may never follow.
chain_spawnError(k) ==
  /\ chains[k].st = "run"
  /\ ~BinRuns(chains[k].bin)
  /\ chains' = [chains EXCEPT ![k].st = "over", ![k].run = "error"]
  /\ dialogs' = dialogs \cup {UncaughtException}
  /\ UNCHANGED <<installerRest, faults, runtime, isContainerRunning,
                 mainPodmanBin, mainWindow, tray, task, main, fn, lpc, lio,
                 lcmds, lret, lchain, starts, issued, decision, stored,
                 installs, startup, launches, ops>>
  /\ UNCHANGED <<race, windows>>

\* The status check of the 'close' handler has come back: the tray menu is
\* updated.
chain_checked(k) ==
  /\ chains[k].st = "ps"
  /\ \E ok \in Outcomes(Cmd(mainPodmanBin, Ps)) :
       LET running == IsRunning(LStdout(ok))
       IN  /\ isContainerRunning' = running
           /\ stored' = Stored("check", ok, LStdout(ok), container = "running")
           /\ Faulted(Cmd(mainPodmanBin, Ps), ok)
           /\ TrayUpdated(running, "check")
  /\ chains' = [chains EXCEPT ![k].st = "over"]
  /\ UNCHANGED <<installerRest, runtime, mainPodmanBin, mainWindow, dialogs,
                 task, main, fn, lpc, lio, lcmds, lret, lchain, starts, issued,
                 installs, startup, launches, ops>>
  /\ UNCHANGED <<race, windows>>

\* ---------------------------------------------------- the tray menu, quit

\* stopContainer resolving true whatever the exit of the stop command.
stopContainer_resultAlwaysTrue(ok) == "true"

\* stopContainer resolves !error.
stopContainer_result(ok) == Bool(ok)

\* stopContainer leaving isContainerRunning as it is.
stopContainer_runningKept == isContainerRunning

\* stopContainer's callback: isContainerRunning = false
stopContainer_running == FALSE

\* The callback of stop: isContainerRunning is set to false, the tray menu
\* updated, and the function resolves with whether the command exited zero.
stopContainer_stopped ==
  /\ fn = "stopContainer" /\ LAwaited("stop")
  /\ \E ok \in Outcomes(lio.cmd) :
       /\ container' = IF ok /\ container = "running" THEN "stopped"
                       ELSE container
       /\ stored' = Stored("stop", ok, <<>>, container' = "running")
       /\ Faulted(lio.cmd, ok)
       /\ LReturned(ok, <<>>, stopContainer_result(ok))
  /\ isContainerRunning' = stopContainer_running
  /\ TrayUpdated(stopContainer_running, "stop")
  /\ main' = IF main = "restart_stop" THEN "restart_wait" ELSE "ready"
  /\ task' = IF main = "restart_stop" THEN task ELSE "none"
  /\ UNCHANGED <<installerRest, arch, otherContainer, mainPodmanBin, mainWindow,
                 dialogs, fn, lchain, chains, starts, issued, installs, startup,
                 launches, ops>>
  /\ UNCHANGED <<race, windows>>

\* The tray menu's 'Stop Server' or 'Start Server', whichever it shows: the
\* click handler stops the container if isContainerRunning says it runs and
\* starts it otherwise.
toggle_click ==
  /\ main = "ready" /\ task = "none" /\ tray # "none"
  /\ ops < MaxOps
  /\ ops' = ops + 1
  /\ task' = "toggle"
  /\ decision' = Decided("toggle", isContainerRunning, stored.by)
  /\ IF isContainerRunning
     THEN /\ Called(mainPodmanBin, "stopContainer", "stop", Stop)
          /\ main' = "toggle_stop"
     ELSE /\ Called(mainPodmanBin, "startContainer", "check1", Ps)
          /\ main' = "toggle_start"
  /\ UNCHANGED <<installerRest, faults, runtime, isContainerRunning,
                 mainPodmanBin, mainWindow, tray, dialogs, chains, starts,
                 stored, installs, startup, launches>>
  /\ UNCHANGED <<race, windows>>

\* 'Restart Server', enabled if the menu was built with the container
\* running: stopContainer, two seconds, startContainer.
restart_click ==
  /\ main = "ready" /\ task = "none" /\ tray = StatusText(TRUE)
  /\ ops < MaxOps
  /\ ops' = ops + 1
  /\ task' = "restart"
  /\ Called(mainPodmanBin, "stopContainer", "stop", Stop)
  /\ main' = "restart_stop"
  /\ UNCHANGED <<installerRest, faults, runtime, isContainerRunning,
                 mainPodmanBin, mainWindow, tray, dialogs, chains, starts,
                 decision, stored, installs, startup, launches>>
  /\ UNCHANGED <<race, windows>>

\* The two seconds of the restart are over.
restart_waited ==
  /\ main = "restart_wait"
  /\ Called(mainPodmanBin, "startContainer", "check1", Ps)
  /\ main' = "restart_start"
  /\ UNCHANGED <<installerRest, faults, runtime, isContainerRunning,
                 mainPodmanBin, mainWindow, tray, dialogs, task, chains, starts,
                 decision, stored, installs, startup, launches, ops>>
  /\ UNCHANGED <<race, windows>>

\* 'Quit MT5 Server', or the main window is closed: the window is destroyed,
\* which window-all-closed answers with app.quit(), and app.quit() is called.
quit_click ==
  /\ main = "ready" /\ task = "none"
  /\ allClosed' = allClosed \cup WindowDestroyed
  /\ Quit
  /\ UNCHANGED <<installerRest, faults, arch, otherContainer,
                 isContainerRunning, mainPodmanBin, mainWindow, tray, dialogs,
                 fn, lpc, lio, lcmds, lret, lchain, starts, stored, installs,
                 startup, launches, ops, appReady>>
  /\ UNCHANGED race

\* The application is launched again: a new process, main.js loaded anew and
\* a new SilentInstaller; the disk and the runtime stay as they are.
AppRelaunch ==
  /\ main = "quit"
  /\ launches < MaxLaunches
  /\ launches' = launches + 1
  /\ isContainerRunning' = FALSE /\ mainPodmanBin' = BarePodman
  /\ mainWindow' = "none" /\ tray' = "none" /\ dialogs' = {}
  /\ task' = "none" /\ main' = "loaded" /\ fn' = "none" /\ lpc' = "idle"
  /\ lio' = Idle /\ lcmds' = <<>> /\ lret' = "none" /\ lchain' = 0
  /\ chains' = NoChains /\ starts' = 0 /\ issued' = {}
  /\ decision' = NoDecision /\ stored' = NotStored /\ installs' = 0
  /\ startup' = "none" /\ ops' = 0
  /\ appReady' = FALSE /\ allClosed' = {}
  /\ ResetCall
  /\ podmanBin' = getPodmanBinPath(platform)
  /\ systemPodmanPath' = Undefined
  /\ UNCHANGED <<world, stateFile, clock, fullRun, calls, runtime>>
  /\ UNCHANGED race

\* The application as main.js runs it.
NextShell ==
  \/ whenReady
  \/ whenReady_installed
  \/ whenReady_failed
  \/ install_step2
  \/ install_step3
  \/ install_step4
  \/ install_complete
  \/ install_catch
  \/ runCommand_exec
  \/ checkSystemPodman_loop
  \/ checkSystemPodman_probed
  \/ setupPodman_system
  \/ setupPodman_checkBundled
  \/ setupPodman_extracted
  \/ extractBundledPodman_start
  \/ extractBundledPodman_close
  \/ initPodmanMachine_listedNames
  \/ initPodmanMachine_inited
  \/ initPodmanMachine_listedRunning
  \/ initPodmanMachine_started
  \/ loadContainerImage_listed
  \/ loadContainerImage_checkTar
  \/ loadContainerImage_loaded
  \/ verifyInstallation_versioned
  \/ verifyInstallation_listed
  \/ startup_checked
  \/ startup_settled
  \/ startup_rechecked
  \/ startup_finished
  \/ startContainer_checked
  \/ startContainer_delayed
  \/ startContainer_rechecked
  \/ \E k \in DOMAIN chains : chain_removed(k)
  \/ \E k \in DOMAIN chains : chain_closed(k)
  \/ \E k \in DOMAIN chains : chain_spawnError(k)
  \/ \E k \in DOMAIN chains : chain_checked(k)
  \/ stopContainer_stopped
  \/ toggle_click
  \/ restart_click
  \/ restart_waited
  \/ quit_click
  \/ AppRelaunch

SpecShell == InitShell /\ [][NextShell]_vars

\* ------------------------------------------------ the setup window closed

\* The user closes the setup window while the whenReady handler is under way:
\* the window has no 'close' listener and is destroyed, no window is left and
\* window-all-closed is handled.  The handler under way goes on.
installWindow_closed ==
  /\ task = "whenReady" /\ mainWindow = "install"
  /\ mainWindow' = "destroyed"
  /\ allClosed' = allClosed \cup WindowDestroyed
  /\ IF \E e \in WindowDestroyed : e.quit
     THEN Quit
     ELSE UNCHANGED <<container, chains, issued, decision, task, main>>
  /\ UNCHANGED <<installerRest, faults, arch, otherContainer,
                 isContainerRunning, mainPodmanBin, tray, dialogs, fn, lpc,
                 lio, lcmds, lret, lchain, starts, stored, installs, startup,
                 launches, ops, appReady>>
  /\ UNCHANGED race

\* The application with a user who may close the setup window.
NextWindows ==
  \/ NextShell
  \/ installWindow_closed

SpecWindows == InitShell /\ [][NextWindows]_vars

\* ------------------------------------------------------- interrupted runs

\* What the child process a killed application leaves behind can still do: it
\* dies with the application, or it ends as it would have ended.
ChildEffects == IF io.st = "running" /\ CanSucceed(io.cmd) THEN BOOLEAN ELSE {FALSE}

\* The application is killed while install() runs (the user quits from the
\* setup window, the machine goes down) and is launched again: a new process
\* and a new SilentInstaller; the state file, the disk and the runtime stay as
\* the run left them.
install_interrupted ==
  /\ op = "install"
  /\ pc \notin {"idle", "done", "hung"}
  /\ \E fin \in ChildEffects :
       /\ machines' = IF fin THEN MachinesAfter(io.cmd) ELSE machines
       /\ images' = IF fin THEN ImagesAfter(io.cmd) ELSE images
       /\ binOnDisk' = IF fin /\ io.cmd.bin = TarBin
                       THEN binOnDisk \/ podmanArchive = "good"
                       ELSE binOnDisk
  /\ ResetCall
  /\ podmanBin' = getPodmanBinPath(platform)
  /\ systemPodmanPath' = Undefined
  /\ UNCHANGED <<platform, systemPodman, podmanArchive, podmanDir, imageTar,
                 stateFile, clock, fullRun, calls, app>>

\* The application, with runs of install() that are cut short.
NextInterrupt ==
  \/ Next
  \/ install_interrupted

SpecInterrupt == Init /\ [][NextInterrupt]_vars

\* --------------------------------------------------- an instance used again

\* A launch on a machine where an earlier launch may have extracted the
\* bundled runtime and recorded it, without getting to the end of the
\* installation; since then the user may have installed a runtime.
InitReuse ==
  /\ platform \in Platforms
  /\ clock = 0
  /\ systemPodman \in SystemRuntimes(platform)
  /\ podmanArchive \in {"missing", "good"}
  /\ imageTar \in {NoTar} \cup ImageRefs
  /\ images \in SUBSET ImageRefs
  /\ machines \in (IF NeedsMachine(platform) THEN MachineStates ELSE {NoMachines})
  /\ \/ stateFile = NoFile /\ podmanDir = FALSE /\ binOnDisk = FALSE
     \/ /\ stateFile = saveState(NoFile, [podmanSource |-> SrcBundled], 0)
        /\ podmanDir = TRUE /\ binOnDisk = TRUE
  /\ InstanceFresh
  /\ CallIdle
  /\ fullRun = FALSE
  /\ calls = 0
  /\ ShellOff
  /\ Alone

\* install() called again and again on the instance that the earlier call
\* left behind, as the class allows.
SpecReuse == InitReuse /\ [][Next]_vars

\* ------------------------------------------------- two instances, one file

\* The application instances launched at the same time.
MaxInstances == 2

Instances == 1..MaxInstances

FieldNames ==
  {"installed", "imageLoaded", "installedAt", "podmanSource", "podmanPath",
   "updatedAt"}

NothingWritten == [k \in FieldNames |-> {}]

\* fs.writeFileSync opens the file with O_TRUNC before it writes: until the
\* content is there the file is empty, which JSON.parse rejects.  A write that
\* lands on what another process has written since the file was opened may
\* leave the end of the other, longer content behind it: not JSON either.
Truncated == Corrupt
Overlapped == Corrupt

\* An instance at launch: install() not called yet, no saveState under way.
Launched ==
  [pc |-> "launched", sub |-> "none", partial |-> EmptyObject,
   newState |-> NoFile, raced |-> FALSE, verified |-> FALSE]

\* What install() passes to saveState: the runtime that setupPodman adopted,
\* then the flags.
PartialsAt(place) ==
  IF place = "setup"
  THEN {[podmanSource |-> SrcBundled],
        [podmanSource |-> SrcSystem, podmanPath |-> podmanPaths(platform)[1]]}
  ELSE {[installed |-> TRUE, imageLoaded |-> TRUE, installedAt |-> clock]}

\* Where install() goes on after saveState.
AfterSave(place) == IF place = "setup" THEN "verify" ELSE "ended"

\* The instances are launched together on a machine where no installation is
\* recorded: no state file, or the record of a run that did not get to its
\* end.
InitRace ==
  /\ platform = "linux"
  /\ stateFile \in {NoFile,
                    saveState(NoFile, [podmanSource |-> SrcBundled], 0),
                    saveState(NoFile, [podmanSource |-> SrcSystem,
                                       podmanPath |-> podmanPaths("linux")[1]], 0)}
  /\ clock = 0
  /\ systemPodman = {}
  /\ podmanArchive = "missing"
  /\ podmanDir = FALSE
  /\ binOnDisk = FALSE
  /\ imageTar = NoTar
  /\ images = {}
  /\ machines = NoMachines
  /\ InstanceFresh
  /\ CallIdle
  /\ fullRun = FALSE
  /\ calls = 0
  /\ ShellOff
  /\ peer = [i \in Instances |-> Launched]
  /\ initialFile = stateFile
  /\ lastWrite = NoWrite
  /\ wroteFields = NothingWritten
  /\ invocations = NoInvocations

\* install() of instance i: with the installation recorded it returns at
\* once, otherwise it sets up the runtime.
peer_install(i) ==
  /\ peer[i].pc = "launched"
  /\ peer' = [peer EXCEPT ![i].pc = IF isInstalled(stateFile) THEN "ended"
                                    ELSE "setup"]
  /\ UNCHANGED <<world, stateFile, clock, instance, call, fullRun, calls,
                 runtime, shell, invocations, initialFile, lastWrite, wroteFields>>

\* saveState(state) of instance i, its first two lines: getState() reads the
\* file and the new record is put together, with the time of this moment.
saveState_getState(i) ==
  /\ peer[i].pc \in {"setup", "verified"}
  /\ peer[i].sub = "none"
  /\ \E state \in PartialsAt(peer[i].pc) :
       /\ peer' = [peer EXCEPT ![i].sub = "read",
                               ![i].partial = state,
                               ![i].newState = saveState(stateFile, state, clock)]
       /\ wroteFields' =
            [k \in FieldNames |->
               wroteFields[k] \cup
                 (IF k \in DOMAIN state THEN {state[k]} ELSE {}) \cup
                 (IF k = "updatedAt" THEN {clock} ELSE {})]
  /\ UNCHANGED <<world, stateFile, clock, instance, call, fullRun, calls,
                 runtime, shell, invocations, initialFile, lastWrite>>

\* fs.writeFileSync, opening the file: the file is truncated.
saveState_open(i) ==
  /\ peer[i].sub = "read"
  /\ stateFile' = Truncated
  /\ peer' = [peer EXCEPT ![i].sub = "opened", ![i].raced = FALSE]
  /\ UNCHANGED <<world, clock, instance, call, fullRun, calls, runtime, shell, invocations,
                 initialFile, lastWrite, wroteFields>>

\* What the file holds after the content is written.
Written(i) ==
  IF peer[i].raced THEN {peer[i].newState, Overlapped} ELSE {peer[i].newState}

\* fs.writeFileSync, writing the content and closing: saveState returns and
\* install() goes on.
saveState_write(i) ==
  /\ peer[i].sub = "opened"
  /\ stateFile' \in Written(i)
  /\ lastWrite' = [by |-> i, file |-> peer[i].newState]
  /\ peer' = [j \in Instances |->
                IF j = i
                THEN [peer[i] EXCEPT !.sub = "none", !.pc = AfterSave(peer[i].pc)]
                ELSE IF peer[j].sub = "opened"
                     THEN [peer[j] EXCEPT !.raced = TRUE]
                     ELSE peer[j]]
  /\ UNCHANGED <<world, clock, instance, call, fullRun, calls, runtime, shell, invocations,
                 initialFile, wroteFields>>

\* The steps after the runtime setup fail in instance i: install() is rejected.
peer_rejected(i) ==
  /\ peer[i].pc = "verify"
  /\ peer' = [peer EXCEPT ![i].pc = "ended"]
  /\ UNCHANGED <<world, stateFile, clock, instance, call, fullRun, calls,
                 runtime, shell, invocations, initialFile, lastWrite, wroteFields>>

\* verifyInstallation has returned in instance i.
peer_verified(i) ==
  /\ peer[i].pc = "verify"
  /\ peer' = [peer EXCEPT ![i].pc = "verified", ![i].verified = TRUE]
  /\ UNCHANGED <<world, stateFile, clock, instance, call, fullRun, calls,
                 runtime, shell, invocations, initialFile, lastWrite, wroteFields>>

\* The instances, each at its own pace.
NextRace ==
  \/ \E i \in Instances : peer_install(i)
  \/ \E i \in Instances : saveState_getState(i)
  \/ \E i \in Instances : saveState_open(i)
  \/ \E i \in Instances : saveState_write(i)
  \/ \E i \in Instances : peer_rejected(i)
  \/ \E i \in Instances : peer_verified(i)
  \/ Tick

SpecRace == InitRace /\ [][NextRace]_vars

\* ------------------------------------------------- the other architecture

\* process.arch of the machines the packages are built for.
Archs == {"arm64", "x64"}

\* A launch of the application as in InitShell, on either architecture and
\* with either image in the bundle (build-all.sh saves eightcap-x86 for the
\* x64 packages and eightcap-arm64 for the arm64 one); nobody else's container
\* runs.
InitArch ==
  /\ platform \in {"darwin", "linux"}
  /\ clock = 0
  /\ systemPodman \in {{}, {HomebrewPodman}}
  /\ podmanArchive \in {"missing", "good"}
  /\ imageTar \in {NoTar} \cup ImageRefs
  /\ images \in {{}, {imageName}}
  /\ machines \in (IF NeedsMachine(platform)
                   THEN {NoMachines, [m \in {DefaultMachine} |-> TRUE]}
                   ELSE {NoMachines})
  /\ \/ stateFile = NoFile /\ podmanDir = FALSE /\ binOnDisk = FALSE
     \/ /\ stateFile = InstalledFile([podmanSource |-> SrcBundled])
        /\ podmanDir = TRUE /\ binOnDisk = TRUE
     \/ /\ stateFile = InstalledFile([podmanSource |-> SrcSystem,
                                      podmanPath |-> HomebrewPodman])
        /\ podmanDir = FALSE /\ binOnDisk = FALSE
  /\ InstanceFresh
  /\ CallIdle
  /\ fullRun = FALSE
  /\ calls = 0
  /\ arch \in Archs
  /\ container \in {"absent", "stopped", "running"}
  /\ otherContainer = FALSE
  /\ container # "absent" => (systemPodman # {} \/ binOnDisk)
  /\ ShellLoaded
  /\ launches = 1
  /\ Alone

SpecArch == InitArch /\ [][NextShell]_vars

\* ------------------------------------------- startContainer calls side by side

\* The clicks on 'Start Server' whose handlers run at the same time.
MaxInvocations == 2

Invocations == 1..MaxInvocations

\* A click handler's startContainer call: the place it has reached, what its
\* first status check found, its chain (0 for none), what it returned, and
\* whether another call was under way at some time of its own.
NotCalled ==
  [pc |-> "none", found |-> FALSE, chain |-> 0, ret |-> "none",
   beside |-> FALSE]

\* The calls that have been made and have not returned.
UnderWay == {i \in DOMAIN invocations : invocations[i].pc \notin {"none", "returned"}}

\* The application after a first launch whose install() has adopted the
\* system runtime and found the image: the tray and the window are there, the
\* status was never checked, the menu shows 'Start Server'.  The click
\* handlers are async and the menu stays as it is while one of them awaits.
InitOverlap ==
  /\ platform = "linux"
  /\ clock = 0
  /\ systemPodman = {HomebrewPodman}
  /\ podmanArchive = "missing"
  /\ imageTar = NoTar
  /\ images = {imageName}
  /\ machines = NoMachines
  /\ stateFile = InstalledFile([podmanSource |-> SrcSystem,
                                podmanPath |-> HomebrewPodman])
  /\ podmanDir = FALSE /\ binOnDisk = FALSE
  /\ podmanBin = HomebrewPodman
  /\ systemPodmanPath = HomebrewPodman
  /\ CallIdle
  /\ fullRun = TRUE
  /\ calls = 1
  /\ arch = "arm64"
  /\ container \in {"absent", "stopped", "running"}
  /\ otherContainer = FALSE
  /\ isContainerRunning = FALSE /\ mainPodmanBin = HomebrewPodman
  /\ mainWindow = "index" /\ tray = StatusText(FALSE) /\ dialogs = {}
  /\ task = "none" /\ main = "ready" /\ fn = "none" /\ lpc = "idle"
  /\ lio = Idle /\ lcmds = <<>> /\ lret = "none" /\ lchain = 0
  /\ chains = NoChains /\ starts = 0 /\ issued = {}
  /\ decision = Decided("window", FALSE, "initial")
  /\ stored = NotStored /\ installs = 1 /\ startup = "none" /\ ops = 0
  /\ appReady = TRUE /\ allClosed = {AllClosed("install", FALSE)}
  /\ launches = 1
  /\ peer = NoPeers /\ initialFile = NoFile /\ lastWrite = NoWrite
  /\ wroteFields = {}
  /\ invocations = [i \in Invocations |-> NotCalled]

\* What the actions of a startContainer call leave alone.
startFrame ==
  <<installerRest, runtime, mainPodmanBin, mainWindow, dialogs, task, main, fn,
    lpc, lio, lcmds, lret, lchain, installs, startup, launches, peer,
    initialFile, lastWrite, wroteFields, appReady, allClosed>>

\* 'Start Server' is clicked while isContainerRunning is false: the handler
\* calls startContainer, which issues its first status check.
start_click(i) ==
  /\ main = "ready" /\ tray # "none"
  /\ invocations[i].pc = "none"
  /\ ~isContainerRunning
  /\ Truthy(mainPodmanBin)
  /\ invocations' =
       [j \in Invocations |->
          IF j = i
          THEN [invocations[i] EXCEPT !.pc = "check1",
                                      !.beside = UnderWay # {}]
          ELSE IF j \in UnderWay
               THEN [invocations[j] EXCEPT !.beside = TRUE]
               ELSE invocations[j]]
  /\ issued' = issued \cup {Ps}
  /\ ops' = ops + 1
  /\ decision' = Decided("toggle", isContainerRunning, stored.by)
  /\ UNCHANGED <<startFrame, faults, isContainerRunning, tray, chains, starts,
                 stored>>

\* The call's first status check has come back: a running container makes it
\* return true; otherwise rm -f is started, whose callback will spawn the
\* launch, and the call waits three seconds.
start_checked(i) ==
  /\ invocations[i].pc = "check1"
  /\ \E ok \in Outcomes(Cmd(mainPodmanBin, Ps)) :
       LET running == IsRunning(LStdout(ok))
       IN  /\ isContainerRunning' = running
           /\ stored' = Stored("check", ok, LStdout(ok), container = "running")
           /\ Faulted(Cmd(mainPodmanBin, Ps), ok)
           /\ IF startContainer_alreadyRunning(running)
              THEN /\ invocations' =
                        [invocations EXCEPT ![i].pc = "returned",
                                            ![i].found = running,
                                            ![i].ret = "true"]
                   /\ UNCHANGED <<chains, starts, issued>>
              ELSE /\ invocations' =
                        [invocations EXCEPT ![i].pc = "delay",
                                            ![i].found = running,
                                            ![i].chain = i]
                   /\ starts' = starts + 1
                   /\ chains' = [k \in (DOMAIN chains) \cup {i} |->
                                   IF k = i THEN Chain(mainPodmanBin)
                                   ELSE chains[k]]
                   /\ issued' = issued \cup {RmForce}
  /\ UNCHANGED <<startFrame, tray, decision, ops>>

\* The three seconds are over: the status is checked again.
start_delayed(i) ==
  /\ invocations[i].pc = "delay"
  /\ invocations' = [invocations EXCEPT ![i].pc = "check2"]
  /\ issued' = issued \cup {Ps}
  /\ UNCHANGED <<startFrame, faults, isContainerRunning, tray, chains, starts,
                 decision, stored, ops>>

\* The second status check has come back: the tray menu is updated and the
\* call returns isContainerRunning.
start_rechecked(i) ==
  /\ invocations[i].pc = "check2"
  /\ \E ok \in Outcomes(Cmd(mainPodmanBin, Ps)) :
       LET running == IsRunning(LStdout(ok))
       IN  /\ isContainerRunning' = running
           /\ stored' = Stored("check", ok, LStdout(ok), container = "running")
           /\ Faulted(Cmd(mainPodmanBin, Ps), ok)
           /\ TrayUpdated(running, "check")
           /\ invocations' =
                [invocations EXCEPT ![i].pc = "returned",
                                    ![i].ret = startContainer_result(running)]
  /\ UNCHANGED <<startFrame, chains, starts, issued, ops>>

\* The click handlers side by side, and the chains they have started.
NextOverlap ==
  \/ \E i \in Invocations : start_click(i)
  \/ \E i \in Invocations : start_checked(i)
  \/ \E i \in Invocations : start_delayed(i)
  \/ \E i \in Invocations : start_rechecked(i)
  \/ \E k \in DOMAIN chains : chain_removed(k)
  \/ \E k \in DOMAIN chains : chain_closed(k)
  \/ \E k \in DOMAIN chains : chain_checked(k)

SpecOverlap == InitOverlap /\ [][NextOverlap]_vars

\* Every child process ends and every timer fires: a call that has been made
\* goes on, and so does every chain.  Nothing makes the user click.
Progress(i) ==
  /\ WF_vars(start_checked(i))
  /\ WF_vars(start_delayed(i))
  /\ WF_vars(start_rechecked(i))
  /\ WF_vars(i \in DOMAIN chains /\ chain_removed(i))
  /\ WF_vars(i \in DOMAIN chains /\ chain_closed(i))
  /\ WF_vars(i \in DOMAIN chains /\ chain_checked(i))

SpecOverlapLive == SpecOverlap /\ \A i \in Invocations : Progress(i)

\* ------------------------------------------------------------------ claims

\* The record holds both flags as true.
BothFlags(f) ==
  /\ f.kind = "json"
  /\ "installed" \in DOMAIN f.obj
  /\ "imageLoaded" \in DOMAIN f.obj
  /\ f.obj.installed
  /\ f.obj.imageLoaded

\* C1: whenever the persisted record has installed=true and imageLoaded=true
\* at the moment install() is called, the call issues no external command,
\* writes nothing to the state file, emits exactly one progress event (step
\* 'complete', message 'Already installed', progress 100) and returns true.
C1_AlreadyInstalledIsNoOp ==
  (op = "install" /\ BothFlags(fileAtCall)) =>
    /\ pc = "done"
    /\ cmds = <<>>
    /\ saved = <<>>
    /\ stateFile = fileAtCall
    /\ events = << [step |-> "complete", message |-> "Already installed",
                    progress |-> 100] >>
    /\ result = [st |-> "resolved", val |-> TRUE]

\* install() has been called on a recorded installation and has returned.
C1_Witness ==
  /\ op = "install"
  /\ BothFlags(fileAtCall)
  /\ result.st = "resolved"

\* The steps an install() run must have completed on this platform.
AllSteps ==
  {"podman", "image", "verify"} \cup
  (IF platform \in {"darwin", "win32"} THEN {"machine"} ELSE {})

\* C2: the state file holds installed=true only if some install() run has
\* completed runtime setup, machine initialization (darwin, win32), image load
\* and verification; the write of installed=true is made by such a run, after
\* those steps; a run that fails writes no installed=true.
C2_InstalledOnlyAfterFullRun ==
  /\ ("installed" \in DOMAIN stateFile.obj /\ stateFile.obj.installed) => fullRun
  /\ \A i \in DOMAIN saved :
       "installed" \in DOMAIN saved[i] =>
         /\ op = "install"
         /\ i = Len(saved)
         /\ AllSteps \subseteq stepsDone
         /\ err = ""
         /\ result.st = "resolved"
  /\ (fullRun /\ ~("installed" \in DOMAIN stateFile.obj)) =>
       (op = "install" /\ pc = "install_complete" /\ AllSteps \subseteq stepsDone)

\* A run on darwin has recorded the installation.
C2_Witness ==
  /\ platform = "darwin"
  /\ op = "install"
  /\ "installed" \in DOMAIN stateFile.obj
  /\ saved # <<>>
  /\ "installed" \in DOMAIN saved[Len(saved)]

\* The order of the steps on this platform.
StepOrder ==
  IF platform \in {"darwin", "win32"}
  THEN << "podman", "machine", "image", "verify", "complete" >>
  ELSE << "podman", "image", "verify", "complete" >>

\* C3: an install() call made with no state file that completes successfully
\* has run the steps in the order podman, machine (exactly on darwin and
\* win32), image, verify, complete, each once; isInstalled() is false before
\* the call and true after it.  (While the call runs, the steps entered so far
\* are the beginning of that order.)
C3_FreshInstallStepOrder ==
  (op = "install" /\ fileAtCall = NoFile) =>
    /\ Len(steps) <= Len(StepOrder)
    /\ steps = SubSeq(StepOrder, 1, Len(steps))
    /\ ~isInstalled(fileAtCall)
    /\ result.st = "resolved" => (steps = StepOrder /\ isInstalled(stateFile))

\* A first install() on win32 has completed successfully.
C3_Witness ==
  /\ op = "install"
  /\ fileAtCall = NoFile
  /\ platform = "win32"
  /\ result.st = "resolved"

\* C4 as claimed: across all progress events of an install() call started with
\* no state file, failing calls included, the progress never decreases from
\* one event to the next.
C4_ProgressNeverDecreases ==
  (op = "install" /\ fileAtCall = NoFile) =>
    \A i \in 1..(Len(events) - 1) : events[i].progress <= events[i + 1].progress

\* C4, amended: across the progress events of an install() call started with
\* no state file the progress never decreases from one event to the next,
\* except that the 'error' event that ends a failing call carries progress 0.
C4_ProgressNonDecreasingUntilError ==
  (op = "install" /\ fileAtCall = NoFile) =>
    \A i \in 1..(Len(events) - 1) :
       IF events[i + 1].step = "error"
       THEN events[i + 1].progress = 0 /\ i + 1 = Len(events)
       ELSE events[i].progress <= events[i + 1].progress

\* A first install() has failed while loading the image: its events are
\* podman, (machine,) image, image, error.
C4_Witness ==
  /\ op = "install"
  /\ fileAtCall = NoFile
  /\ result.st = "rejected"
  /\ Len(events) >= 4
  /\ events[Len(events)].step = "error"
  /\ events[Len(events) - 1].progress = 60

\* C5: once a provisioning step of install() has thrown, install() is in its
\* catch or has settled: no further step is entered and no further command is
\* started; the call ends rejected with the error thrown, having emitted
\* exactly one 'error' event, as its last event.
C5_ThrowAbortsInstall ==
  [][(op' = "install" /\ err' # "") =>
       /\ pc' \in {"install_catch", "done"}
       /\ io'.st = "idle"
       /\ (err # "") => (err' = err /\ cmds' = cmds /\ steps' = steps /\ saved' = saved)
       /\ (pc' = "install_catch") =>
            /\ result'.st = "pending"
            /\ \A i \in DOMAIN events' : events'[i].step # "error"
       /\ (pc' = "done") =>
            /\ result' = [st |-> "rejected", val |-> err']
            /\ events'[Len(events')] =
                 [step |-> "error", message |-> "Installation failed: " \o err',
                  progress |-> 0]
            /\ \A i \in 1..(Len(events') - 1) : events'[i].step # "error"]_vars

\* An install() has been rejected after a command of its machine step failed.
C5_Witness ==
  /\ op = "install"
  /\ result.st = "rejected"
  /\ steps = << "podman", "machine" >>
  /\ cmds[Len(cmds)].st = "failed"

\* C6: saveState(partial) merges the partial into the stored record: every
\* field of the record read before the call that the partial does not name is
\* in the file after the call with the value it had, and the only fields the
\* call adds or changes are the partial's and updatedAt.
C6_SaveStateMerges ==
  [][(op' = "saveState" /\ stateFile' # stateFile) =>
       LET partial == saved'[1]
           old == getState(stateFile)
           touched == (DOMAIN partial) \cup {"updatedAt"}
       IN  /\ stateFile'.kind = "json"
           /\ \A k \in (DOMAIN old) \ touched :
                k \in DOMAIN stateFile'.obj /\ stateFile'.obj[k] = old[k]
           /\ \A k \in (DOMAIN stateFile'.obj) \ touched : k \in DOMAIN old
           /\ \A k \in DOMAIN partial : stateFile'.obj[k] = partial[k]
           /\ stateFile'.obj.updatedAt = clock]_vars

\* A saveState has left in the file a field its partial did not name.
C6_Witness ==
  /\ op = "saveState"
  /\ saved = << [podmanSource |-> SrcBundled] >>
  /\ "installed" \in DOMAIN stateFile.obj
  /\ "imageLoaded" \in DOMAIN stateFile.obj

\* C7: isInstalled() returns true exactly when the state file exists, parses
\* as JSON, and holds both installed and imageLoaded strictly equal to true.
C7_IsInstalledExact ==
  op = "isInstalled" =>
    result.val =
      ( /\ stateFile.kind # "ENOENT"
        /\ stateFile.kind # "not JSON"
        /\ "installed" \in DOMAIN stateFile.obj
        /\ "imageLoaded" \in DOMAIN stateFile.obj
        /\ stateFile.obj.installed
        /\ stateFile.obj.imageLoaded )

\* isInstalled() has returned false on a file that parses and holds one of the
\* two flags as true.
C7_Witness ==
  /\ op = "isInstalled"
  /\ result = Resolved(FALSE)
  /\ stateFile.kind = "json"
  /\ "installed" \in DOMAIN stateFile.obj
  /\ stateFile.obj.installed
  /\ "imageLoaded" \in DOMAIN stateFile.obj
  /\ ~stateFile.obj.imageLoaded


\* The commands a call starts with: its probes of the system locations.
Probes ==
  CHOOSE n \in 0..Len(cmds) :
    /\ \A i \in 1..n : cmds[i].verb = "--version"
    /\ n = Len(cmds) \/ cmds[n + 1].verb # "--version"

ExtractionRan == \E j \in DOMAIN cmds : cmds[j].bin = "tar"

\* C8: whenever a probe of a system location succeeds in setupPodman, that
\* path is adopted (this.podmanBin, and every later command of the call) and
\* the record gets podmanSource 'system' and the path, also when an extracted
\* bundled binary is on disk; the call neither records 'bundled' nor runs the
\* extraction.
C8_SystemRuntimePreferred ==
  \A i \in 1..Probes :
     cmds[i].st = "ok" =>
       /\ ~ExtractionRan
       /\ \A j \in DOMAIN saved :
            "podmanSource" \in DOMAIN saved[j] => saved[j].podmanSource = "system"
       /\ IF pc = "sp_system"
          THEN saved = <<>>
          ELSE /\ saved # <<>>
               /\ saved[1] = [podmanSource |-> "system", podmanPath |-> cmds[i].bin]
               /\ podmanBin = cmds[i].bin
               /\ stateFile.obj.podmanSource = "system"
               /\ stateFile.obj.podmanPath = cmds[i].bin
               /\ \A j \in (i + 1)..Len(cmds) : cmds[j].bin = cmds[i].bin

\* A system runtime has been adopted with the extracted bundled binary on disk.
C8_Witness ==
  /\ binOnDisk
  /\ Probes > 0
  /\ cmds[Probes].st = "ok"
  /\ saved # <<>>
  /\ podmanBin = cmds[Probes].bin

\* C9: checkSystemPodman probes the candidates in the order of the list; every
\* probe but the last one made has failed, so the first candidate that
\* answers is adopted and no later one is probed; when exactly the k-th
\* location holds a runtime and its probe does not fail, that path is recorded
\* with source 'system' and the extraction does not run.
C9_FirstRespondingCandidate ==
  /\ Probes <= Len(podmanPaths(platform))
  /\ \A i \in 1..Probes : cmds[i].bin = podmanPaths(platform)[i]
  /\ \A i \in 1..(Probes - 1) : cmds[i].st = "failed"
  /\ (Probes > 0 /\ cmds[Probes].st = "ok" /\ pc # "sp_system") =>
       /\ systemPodmanPath = podmanPaths(platform)[Probes]
       /\ saved # <<>>
       /\ saved[1] = [podmanSource |-> "system",
                      podmanPath |-> podmanPaths(platform)[Probes]]
  /\ \A k \in DOMAIN podmanPaths(platform) :
       ( /\ systemPodman = {podmanPaths(platform)[k]}
         /\ saved # <<>>
         /\ ~(Probes >= k /\ cmds[k].st = "failed") ) =>
         /\ Probes = k
         /\ saved[1] = [podmanSource |-> "system",
                        podmanPath |-> podmanPaths(platform)[k]]
         /\ ~ExtractionRan

\* Only the third of the five candidates holds a runtime, and it has been
\* adopted after the first two were probed.
C9_Witness ==
  /\ systemPodman = {"/opt/podman/bin/podman"}
  /\ Probes = 3
  /\ cmds[3].st = "ok"
  /\ systemPodmanPath = "/opt/podman/bin/podman"
  /\ saved # <<>>

\* C10: whenever the image listing the runtime returns contains the target
\* image reference, no load -i is started after it in the call, in
\* loadContainerImage during install() and in ensureImageLoaded alike.
C10_NoLoadWhenImageListed ==
  \A i \in DOMAIN cmds :
     ( /\ cmds[i].verb = Images
       /\ cmds[i].st = "ok"
       /\ Includes(cmds[i].out, imageName) ) =>
       /\ \A j \in (i + 1)..Len(cmds) : cmds[j].verb # Load
       /\ pc \notin {"lci_checkTar", "lci_load", "eil_checkTar", "eil_load"}

\* ensureImageLoaded has returned on a listing that holds the target image,
\* with the bundled archive there to load.
C10_Witness ==
  /\ op = "ensureImageLoaded"
  /\ result.st = "resolved"
  /\ imageTar # NoTar
  /\ cmds # <<>>
  /\ cmds[Len(cmds)].verb = Images
  /\ Includes(cmds[Len(cmds)].out, imageName)

\* C11: when startContainer's status check reports the container running, the
\* call returns true at once; it issues no rm -f and spawns no run.
C11_StartIsNoOpWhenRunning ==
  [][(/\ fn = "startContainer" /\ LAwaited("check1")
      /\ lpc' # "check1"
      /\ isContainerRunning')
       => (/\ lpc' = "returned" /\ lret' = "true"
           /\ chains' = chains /\ starts' = starts /\ issued' = issued
           /\ lchain' = 0)]_vars

\* A startContainer call has returned true after its first status check.
C11_Witness ==
  /\ fn = "startContainer" /\ lpc = "returned" /\ lret = "true"
  /\ Len(lcmds) = 1 /\ lcmds[1].verb = Ps /\ IsRunning(lcmds[1].out)
  /\ lchain = 0

\* C12: whenever the main window has been created, the launch has checked the
\* container's status before and, having found it not running, has called
\* startContainer.
C12_StartedBeforeWindow ==
  mainWindow \in {"index", "novnc"} => startup \in {"running", "started"}

\* C13: a process whose install() has rejected has shown the error box and
\* quit; it has issued no container command, created neither tray nor main
\* window, and called install() once.
C13_FailedInstallQuits ==
  InstallationFailed \in dialogs
    => /\ main = "quit"
       /\ issued = {}
       /\ tray = "none" /\ mainWindow \notin {"index", "novnc"}
       /\ installs = 1

\* A process has shown the error box of a failed installation.
C13_Witness ==
  /\ InstallationFailed \in dialogs
  /\ main = "quit" /\ installs = 1

\* C14: in every chain startContainer has started, the run -d launch has been
\* issued only once the rm -f has ended, and it has been issued as soon as the
\* rm -f has ended, whether that exited zero or not.
C14_LaunchAfterRemoval ==
  \A k \in DOMAIN chains :
     /\ chains[k].run # "none" => chains[k].rm \in {"ok", "failed"}
     /\ chains[k].rm \in {"ok", "failed"} => chains[k].run # "none"

\* A launch has been issued after a removal that failed.
C14_Witness ==
  \E k \in DOMAIN chains :
     /\ chains[k].rm = "failed"
     /\ chains[k].run \in {"running", "ok", "failed"}

\* C15: a startContainer call that went on to the removal returns true exactly
\* when the status check it made after the delay reported the container
\* running, whatever has become of its removal and its launch by then.
C15_StartReturnsDelayedCheck ==
  (fn = "startContainer" /\ lpc = "returned" /\ Len(lcmds) = 2)
    => /\ lcmds[2].verb = Ps
       /\ lret = Bool(lcmds[2].st = "ok" /\ IsRunning(lcmds[2].out))

\* A startContainer call has returned true while its own removal or launch was
\* still going on.
C15_Witness ==
  /\ fn = "startContainer" /\ lpc = "returned" /\ Len(lcmds) = 2
  /\ lret = "true"
  /\ lchain \in DOMAIN chains
  /\ chains[lchain].st \in {"rm", "run"}

\* C16: a status check whose ps exited zero reports running exactly when the
\* container named mt5-server is running, whatever other containers run.
C16_StatusExactName ==
  (stored.by = "check" /\ stored.ok) => (isContainerRunning <=> stored.was)

\* C17: a stopContainer call that has returned has issued exactly one command,
\* stop mt5-server, and has resolved true exactly if that command exited zero.
C17_StopResolvesExit ==
  (fn = "stopContainer" /\ lpc = "returned")
    => /\ Len(lcmds) = 1
       /\ lcmds[1].verb = Stop
       /\ lret = Bool(lcmds[1].st = "ok")

\* A stopContainer call has resolved false after its stop failed.
C17_Witness ==
  /\ fn = "stopContainer" /\ lpc = "returned"
  /\ lcmds[1].st = "failed" /\ lret = "false"

\* C18 as claimed: every decision on the container's status uses a value that
\* a status check has produced.
C18_StatusNeverCached ==
  decision.what # "none" => decision.from = "check"

\* C18: every decision on the container's status reads isContainerRunning,
\* which holds the verdict of the latest status check that has come back, and
\* false if none has come back in the process or a stop has come back since.
C18_DecisionsReadStoredStatus ==
  [][/\ decision' # decision
          => /\ decision'.value = isContainerRunning'
             /\ decision'.from = stored'.by
     /\ stored'.by \in {"initial", "stop"} => ~isContainerRunning'
     /\ stored'.by = "check" => (isContainerRunning' <=> IsRunning(stored'.out))
    ]_vars

\* The main window was created showing the start page, by a process that never
\* asked the runtime, while the container was running.
C18_Witness ==
  /\ decision = Decided("window", FALSE, "initial")
  /\ mainWindow = "index"
  /\ container = "running" /\ ~otherContainer

\* A startContainer call has returned and its removal or its launch failed.
StartFailed ==
  /\ fn = "startContainer" /\ lpc = "returned"
  /\ lchain \in DOMAIN chains
  /\ \/ chains[lchain].rm = "failed"
     \/ chains[lchain].run \in {"failed", "error"}

\* C19 as claimed: no lifecycle function rejects; a failing ps yields status
\* false, a failing stop yields false, and a failing rm or run yields a false
\* start result.
C19_FailuresYieldFalse ==
  /\ lret \in {"none", "true", "false"}
  /\ (stored.by = "check" /\ ~stored.ok) => ~isContainerRunning
  /\ (fn = "stopContainer" /\ lpc = "returned" /\ lcmds[1].st = "failed")
       => lret = "false"
  /\ StartFailed => lret = "false"

\* C19: no lifecycle function rejects; a failing ps yields status false, a
\* failing stop yields false, and a startContainer call whose rm or run failed
\* returns true only if its status check after the delay found the container
\* running all the same.
C19_FailuresYieldVerdicts ==
  /\ lret \in {"none", "true", "false"}
  /\ (stored.by = "check" /\ ~stored.ok) => ~isContainerRunning
  /\ (fn = "checkContainerStatus" /\ lpc = "returned" /\ lcmds[1].st = "failed")
       => lret = "false"
  /\ (fn = "stopContainer" /\ lpc = "returned" /\ lcmds[1].st = "failed")
       => lret = "false"
  /\ (StartFailed /\ lret = "true")
       => /\ lcmds[2].st = "ok"
          /\ Includes(lcmds[2].out, containerName)

\* A startContainer call has returned true although its removal failed: the
\* launch went through.
C19_Witness ==
  /\ StartFailed
  /\ chains[lchain].rm = "failed" /\ chains[lchain].run = "ok"
  /\ lret = "true"

RuntimeNotFound == "Container Runtime Not Found"

\* C20: while no runtime binary can be found, neither at a system location nor
\* extracted, no container command is issued, and a startContainer call
\* returns false having shown the install instructions.
C20_MissingRuntimeIsHardStop ==
  (systemPodman = {} /\ ~binOnDisk)
    => /\ issued = {}
       /\ (fn = "startContainer" /\ lpc = "returned")
            => (lret = "false" /\ RuntimeNotFound \in dialogs)


\* C21: an install() run that fails or is cut short at any step leaves
\* isInstalled() false, and the next install() call runs every step again from
\* the runtime setup on: it begins with the probe of the first system
\* location and enters the steps in their order, whatever the earlier run
\* wrote to the state file; it completes only having entered them all.
C21_FailedRunRestartsFromStart ==
  /\ (op = "none" /\ isInstalled(stateFile)) => fullRun
  /\ (op = "install" /\ ~isInstalled(fileAtCall)) =>
       /\ result.st # "resolved" => ~isInstalled(stateFile)
       /\ steps # <<>> /\ steps[1] = "podman"
       /\ Len(steps) <= Len(StepOrder)
       /\ steps = SubSeq(StepOrder, 1, Len(steps))
       /\ cmds # <<>> =>
            (cmds[1].bin = podmanPaths(platform)[1] /\ cmds[1].verb = "--version")
       /\ result.st = "resolved" => steps = StepOrder

\* A second install() on darwin, called on a state file that holds the
\* runtime an earlier run recorded but no installation, has completed.
C21_Witness ==
  /\ calls = 2
  /\ op = "install"
  /\ platform = "darwin"
  /\ fileAtCall.kind = "json"
  /\ "podmanSource" \in DOMAIN fileAtCall.obj
  /\ ~isInstalled(fileAtCall)
  /\ result.st = "resolved"
  /\ steps = StepOrder

\* C22 as claimed: during install() the state file is written after each
\* provisioning step that succeeds (runtime setup, machine initialization,
\* image load, verification) and once more when the run ends in a terminal
\* failure.
C22_SavedAfterEachStep ==
  (op = "install" /\ pc = "done") =>
    Len(saved) = Cardinality(stepsDone)
                   + (IF result.st = "rejected" THEN 1 ELSE 0)

\* C22, amended: during install() the state file is written exactly twice at
\* most: when runtime setup succeeds (podmanSource, with podmanPath for a
\* system runtime) and when verification has succeeded (installed,
\* imageLoaded, installedAt); machine initialization and image load write
\* nothing, and a run that ends in a terminal failure writes nothing more.
C22_SavedAfterSetupAndVerification ==
  (op = "install" /\ ~isInstalled(fileAtCall)) =>
    LET setup == IF "podman" \in stepsDone THEN 1 ELSE 0
        complete == IF result.st = "resolved" THEN 1 ELSE 0
    IN  /\ Len(saved) = setup + complete
        /\ setup = 0 => stateFile = fileAtCall
        /\ setup = 1 =>
             /\ "podmanSource" \in DOMAIN saved[1]
             /\ DOMAIN saved[1] \subseteq {"podmanSource", "podmanPath"}
        /\ complete = 1 =>
             /\ setup = 1
             /\ DOMAIN saved[2] = {"installed", "imageLoaded", "installedAt"}
        /\ result.st = "rejected" =>
             stateFile = (IF setup = 1
                          THEN saveState(fileAtCall, saved[1], clock)
                          ELSE fileAtCall)

\* A run on darwin has been rejected in its verification, after runtime setup,
\* machine initialization and image load succeeded: it wrote the state file
\* once.
C22_Witness ==
  /\ op = "install"
  /\ platform = "darwin"
  /\ result.st = "rejected"
  /\ stepsDone = {"podman", "machine", "image"}
  /\ Len(saved) = 1

VerifyQuery(i) ==
  /\ cmds[i].verb = "images --format {{.Repository}}:{{.Tag}}"
  /\ i - 1 > Probes
  /\ cmds[i - 1].verb = "--version"

\* The commands whose failure the code catches and answers by itself: the
\* probes of the system locations, the machine list queries and the images
\* query of loadContainerImage.
CaughtQuery(i) ==
  \/ i <= Probes
  \/ cmds[i].verb \in {"machine list --format {{.Name}}",
                       "machine list --format {{.Running}}"}
  \/ cmds[i].verb = "images --format {{.Repository}}:{{.Tag}}" /\ ~VerifyQuery(i)

IssuedNext(i, verb, place) ==
  IF i < Len(cmds) THEN cmds[i + 1].verb = verb ELSE pc = place

\* Nothing has changed the runtime's machines since the i-th command ended.
MachinesAsListed(i) == i = Len(cmds) \/ cmds[i + 1].st = "running"

DefaultMachineRunning ==
  /\ << "podman-machine-default" >> \in DOMAIN machines
  /\ machines[<< "podman-machine-default" >>]

\* C24: in initPodmanMachine, on the answer of its machine list queries,
\* machine init is issued if and only if no machine named
\* podman-machine-default exists, and machine start is issued if and only if
\* that machine is not running; with the machine there and running neither
\* command is issued.
C24_MachineCommandsExact ==
  op = "install" =>
    \A i \in DOMAIN cmds :
       /\ (cmds[i].verb = "machine list --format {{.Name}}" /\ cmds[i].st = "ok") =>
            IF IssuedNext(i, "machine init --cpus 2 --memory 4096 --disk-size 20",
                          "ipm_init")
            THEN MachinesAsListed(i) =>
                   << "podman-machine-default" >> \notin DOMAIN machines
            ELSE << "podman-machine-default" >> \in DOMAIN machines
       /\ (cmds[i].verb = "machine list --format {{.Running}}" /\ cmds[i].st = "ok") =>
            IF IssuedNext(i, "machine start", "ipm_start")
            THEN MachinesAsListed(i) => ~DefaultMachineRunning
            ELSE DefaultMachineRunning

\* C25: if the target image is not listed and the bundled image archive
\* mt5-server.tar does not exist, then the image step of install() fails with
\* the 'download the full installer' error: no load is issued, verification
\* does not run, and the flags installed and imageLoaded are not persisted as
\* true.
C25_MissingImageArchiveFails ==
  (op = "install" /\ imageName \notin images /\ imageTar = <<>>) =>
    /\ \A i \in DOMAIN cmds : cmds[i].verb # "load -i mt5-server.tar"
    /\ \A i \in DOMAIN steps : steps[i] \notin {"verify", "complete"}
    /\ ~("installed" \in DOMAIN stateFile.obj /\ stateFile.obj.installed)
    /\ ~("imageLoaded" \in DOMAIN stateFile.obj /\ stateFile.obj.imageLoaded)
    /\ result.st # "resolved"
    /\ ((\E i \in DOMAIN steps : steps[i] = "image") /\ err # "") =>
         err = "Bundled container image not found. Please download the full installer."
    /\ ((\E i \in DOMAIN steps : steps[i] = "image") /\ pc = "done") =>
         /\ result.st = "rejected"
         /\ result.val =
              "Bundled container image not found. Please download the full installer."

\* An install() has been rejected in its image step: the runtime lists only
\* the image of the other architecture and the bundle holds no archive.
C25_Witness ==
  /\ op = "install"
  /\ images = {imageX86}
  /\ imageTar = <<>>
  /\ steps[Len(steps)] = "image"
  /\ result.st = "rejected"

\* C26: whenever the persisted record has imageLoaded=true, the exact required
\* image reference, the installer's target image name and not merely some
\* image whose name contains 'avyaktha-mt5', was in the runtime's image list
\* when the flag was written.  (No image is ever removed, so a reference that
\* is not listed now was not listed then.)
C26_ImageLoadedMeansTargetListed ==
  ("imageLoaded" \in DOMAIN stateFile.obj /\ stateFile.obj.imageLoaded) =>
    Includes(ImagesOutput(images),
             << "localhost/", "avyaktha-mt5", ":eightcap-", "arm64" >>)

\* Every system location has been probed in this call and none has answered.
NoProbeResponded ==
  /\ Probes = Len(podmanPaths(platform))
  /\ \A i \in 1..Probes : cmds[i].st = "failed"

\* C27: the bundle extraction is the last resort of runtime setup: tar is
\* spawned only when no probe of a system location has answered and no
\* extracted bundled binary is on disk; when an extracted binary is on disk it
\* is adopted with source 'bundled' and nothing is extracted.
C27_ExtractionIsLastResort ==
  /\ (pc = "ebp_tar" /\ io.st = "running") =>
       /\ NoProbeResponded
       /\ ~binOnDisk
  /\ (pc = "ebp_start" /\ podmanArchive # "missing") =>
       /\ NoProbeResponded
       /\ ~binOnDisk
  /\ (op # "none" /\ NoProbeResponded /\ binOnDisk /\ ~ExtractionRan
        /\ pc \notin {"csp_loop", "csp_probe", "sp_checkBundled"}) =>
       /\ saved # <<>>
       /\ saved[1] = [podmanSource |-> "bundled"]

\* The errors extractBundledPodman fails with.
InstallInstructions ==
  CASE platform = "win32" ->
         "Podman is required but not installed. Please install Podman Desktop"
    [] platform = "darwin" ->
         "Podman is required but not installed. Please install Podman using Homebrew"
    [] OTHER ->
         "Podman is required but not installed. Please install Podman: sudo apt install podman"

ExtractionErrors == {InstallInstructions, "Failed to extract Podman: exit code 1"}

\* C28: when the platform's bundled runtime archive is missing,
\* extractBundledPodman fails with the platform's install instructions; it
\* makes no directory, spawns no process and writes no state file.  When the
\* archive is there and tar exits nonzero, it fails with the extraction error
\* that carries the exit code.  Either way the call records nothing, so no
\* podmanSource 'bundled' is persisted, and is rejected with that error.
C28_ExtractionFailures ==
  [][/\ (pc = "ebp_start" /\ podmanArchive = "missing") =>
          /\ err' = InstallInstructions
          /\ pc' = "install_catch"
          /\ podmanDir' = podmanDir
          /\ cmds' = cmds
          /\ io'.st = "idle"
          /\ stateFile' = stateFile
          /\ saved' = <<>>
     /\ (pc = "ebp_tar" /\ cmds'[Len(cmds')].st = "failed") =>
          /\ podmanArchive # "missing"
          /\ err' = "Failed to extract Podman: exit code 1"
          /\ pc' = "install_catch"
          /\ stateFile' = stateFile
          /\ saved' = <<>>
     /\ (op' = "install" /\ err \in ExtractionErrors) =>
          /\ stateFile' = stateFile
          /\ saved' = <<>>
          /\ pc' = "done"
          /\ result' = [st |-> "rejected", val |-> err]]_vars

\* An install() has been rejected because tar exited nonzero: the directory
\* is there, nothing is recorded.
C28_Witness ==
  /\ op = "install"
  /\ result = [st |-> "rejected", val |-> "Failed to extract Podman: exit code 1"]
  /\ podmanDir
  /\ \E i \in DOMAIN cmds : cmds[i].bin = "tar" /\ cmds[i].st = "failed"
  /\ saved = <<>>
  /\ stateFile = fileAtCall

\* Only the bare command name answers, and the call's probe of it has.
OnlyBarePathResponded ==
  /\ systemPodman = {"podman"}
  /\ Probes > 0
  /\ cmds[Probes].bin = "podman"
  /\ cmds[Probes].st = "ok"

\* C29 as claimed: the locator prefers a system installation at a well-known
\* absolute path, then a bundled copy already extracted, then the bare podman
\* of the PATH: with an extracted bundled binary on disk and only the bare
\* lookup answering, the bundled binary is the one adopted.
C29_BundledBeforeBarePath ==
  (OnlyBarePathResponded /\ binOnDisk /\ ~ExtractionRan /\ saved # <<>>) =>
    /\ saved[1] = [podmanSource |-> "bundled"]
    /\ podmanBin = getPodmanBinPath(platform)

\* C29, amended: the locator prefers a system location that answers, the
\* well-known absolute paths in the order of the list and after them the bare
\* podman of the PATH, to a bundled copy already extracted: with an extracted
\* binary on disk and only the bare lookup answering, the bare podman is
\* adopted with source 'system'; 'bundled' is recorded only after every probe,
\* the one of the bare podman included, has failed.
C29_BarePathBeforeBundled ==
  /\ (OnlyBarePathResponded /\ binOnDisk /\ saved # <<>>) =>
       /\ saved[1] = [podmanSource |-> "system", podmanPath |-> "podman"]
       /\ podmanBin = "podman"
       /\ \A i \in 1..(Probes - 1) : cmds[i].bin # "podman" /\ cmds[i].st = "failed"
  /\ (saved # <<>> /\ saved[1] = [podmanSource |-> "bundled"]) =>
       /\ \E i \in 1..Probes : cmds[i].bin = "podman" /\ cmds[i].st = "failed"
       /\ \A i \in 1..Probes : cmds[i].st = "failed"

\* With the bundled runtime extracted by an earlier launch, the bare podman of
\* the PATH has answered and has been adopted.
C29_Witness ==
  /\ OnlyBarePathResponded
  /\ binOnDisk
  /\ ~ExtractionRan
  /\ calls = 1
  /\ saved # <<>>
  /\ saved[1] = [podmanSource |-> "system", podmanPath |-> "podman"]

\* No saveState call is under way and at least one has returned.
Quiet ==
  /\ lastWrite.by # 0
  /\ \A i \in Instances : peer[i].sub = "none"

\* Field k of the file holds a value that an instance passed to saveState or
\* that the file held when the instances were launched.
WrittenOrInitial(k) ==
  \/ getState(stateFile)[k] \in wroteFields[k]
  \/ /\ k \in DOMAIN getState(initialFile)
     /\ getState(initialFile)[k] = getState(stateFile)[k]

\* The file is the record that the last saveState call put together.
LastWriterWins == Quiet => stateFile = lastWrite.file

\* A field that no instance wrote is in the file as it was at launch.
UntouchedFieldsKept ==
  Quiet =>
    \A k \in DOMAIN getState(initialFile) :
      wroteFields[k] = {} =>
        /\ k \in DOMAIN getState(stateFile)
        /\ getState(stateFile)[k] = getState(initialFile)[k]

\* installed = true is in the file only after an instance has verified.
InstalledOnlyVerified ==
  isInstalled(stateFile) => \E i \in Instances : peer[i].verified

\* C30: with two instances interleaving their read-merge-write saveState
\* calls on the one state file, once the calls have returned the file is the
\* record written by the last call, every field of it holds a value that an
\* instance wrote or that was there at launch, nothing but a field written by
\* the other instance is missing or stale (a field that neither wrote is kept),
\* and installed = true is there only if an instance completed verification.
C30_LastWriterWinsNoCorruption ==
  /\ LastWriterWins
  /\ \A k \in DOMAIN getState(stateFile) : WrittenOrInitial(k)
  /\ UntouchedFieldsKept
  /\ InstalledOnlyVerified

\* The step in which the application quits.
Quitting == main # "quit" /\ main' = "quit"

\* C31: when the application quits while the container mt5-server is running,
\* the before-quit handler issues stop mt5-server, and the container is not
\* running once the application has quit.
C31_QuitStopsRunningContainer ==
  [][(Quitting /\ container = "running") =>
       (beforeQuit_stops /\ Stop \in issued' /\ container' # "running")]_vars

\* The child processes of the call that have not ended yet.
InFlight == {j \in DOMAIN cmds : cmds[j].st = "running"}

\* C32: within one install() run at most one external command is in flight:
\* a command is started only after the one before it has ended, and it is the
\* one the run awaits; a provisioning step is entered only after the step
\* before it has completed.
C32_OneCommandInFlight ==
  op = "install" =>
    /\ Cardinality(InFlight) <= 1
    /\ InFlight \subseteq {Len(cmds)}
    /\ InFlight # {} <=> io.st = "running"
    /\ \A j \in DOMAIN steps : j > 1 => steps[j - 1] \in stepsDone

\* A run in its third step or later, with commands ended and one in flight.
C32_Witness ==
  /\ op = "install"
  /\ Len(steps) >= 3
  /\ Len(cmds) >= 3
  /\ InFlight = {Len(cmds)}
  /\ \E j \in DOMAIN cmds : cmds[j].st = "failed"

\* An install() call that ran the provisioning steps has resolved.
InstallCompleted ==
  /\ op = "install" /\ pc = "done" /\ result.st = "resolved"
  /\ steps # <<>>

\* The record's podmanSource and podmanPath describe one runtime: a system
\* runtime with its path, or the bundled one with no other runtime's path.
RecordDescribesOneRuntime ==
  LET state == getState(stateFile)
  IN  /\ "podmanSource" \in DOMAIN state
      /\ state.podmanSource = SrcSystem =>
            "podmanPath" \in DOMAIN state /\ state.podmanPath = podmanBin
      /\ (state.podmanSource = SrcBundled /\ "podmanPath" \in DOMAIN state) =>
            state.podmanPath = getPodmanBinPath(platform)

\* C33: after install() has completed successfully, getPodmanPath() returns
\* the runtime that this run adopted and verified, and podmanSource and
\* podmanPath of the record describe that one runtime: a path saved by an
\* earlier run with source 'system' is not returned once the source is
\* 'bundled'.
C33_PathIsAdoptedRuntime ==
  InstallCompleted =>
    /\ getPodmanPath = podmanBin
    /\ RecordDescribesOneRuntime

\* A launch spawned by startContainer is under way.
Launching == \E k \in DOMAIN chains : chains[k].st = "run"

\* C34: the image reference that startContainer launches is the reference
\* that the installer loaded and verified, on arm64 and on the other
\* architectures: once an install() run of this process has resolved, a
\* launched image is one that run confirmed present.
C34_LaunchedImageIsVerifiedImage ==
  (installs = 1 /\ isInstalled(stateFile) /\ Launching) =>
    /\ configImageName(arch) = imageName
    /\ configImageName(arch) \in images

\* Two startContainer calls have been under way at the same time.
SideBySide == \E i \in DOMAIN invocations : invocations[i].beside

\* The chains whose launch has been spawned.
Runs == {k \in DOMAIN chains : chains[k].run # "none"}

\* The calls that went on to the removal.
WentOn == {i \in DOMAIN invocations : invocations[i].chain # 0}

\* The callback of chain k's rm -f comes in this step, the container is gone
\* with it, and it had been launched by another chain.
RemovesOthersLaunch(k) ==
  /\ chains[k].st = "rm" /\ chains'[k].st = "run"
  /\ container # "absent" /\ container' = "absent"
  /\ \E j \in DOMAIN chains : j # k /\ chains[j].run = "ok"

\* C35 as stated: when two startContainer calls overlap, at most one run is
\* issued for the container name, and the rm -f of neither call removes a
\* container that the other call launched.
C35_OneRunNoCrossRemoval ==
  [][SideBySide' =>
       /\ Cardinality(Runs') <= 1
       /\ \A k \in DOMAIN chains : ~RemovesOthersLaunch(k)]_vars

\* C35, amended: nothing is deduplicated.  Every startContainer call whose
\* first status check does not report the container running starts its own
\* rm -f and, from that command's callback, its own run, whatever the other
\* call is doing; a call whose first check reports it running starts
\* neither.  So overlapping calls issue up to one run each.
C35_EachCallLaunchesItsOwn ==
  /\ \A i \in DOMAIN invocations :
       LET v == invocations[i]
       IN  /\ v.pc \in {"delay", "check2", "returned"} =>
                (v.chain # 0 <=> ~v.found)
           /\ v.chain # 0 => v.chain = i /\ i \in DOMAIN chains
  /\ \A k \in Runs : chains[k].rm # "running" /\ k \in WentOn
  /\ Cardinality(Runs) <= Cardinality(WentOn)

\* Two overlapping calls have each spawned a launch, and the removal of the
\* second has taken away the container that the first had launched.
C35_Witness ==
  /\ SideBySide
  /\ Cardinality(Runs) = 2
  /\ \E j, k \in DOMAIN chains :
       /\ j # k
       /\ chains[j].run = "ok"
       /\ chains[k].st = "run" /\ chains[k].rm = "ok"
       /\ container = "absent"

\* C36: after a completed lifecycle operation (status check, start, stop)
\* isContainerRunning equals the container's actual state as of the
\* operation's last command; a stop that failed does not leave the flag
\* saying that the container is stopped.
C36_FlagIsActualState ==
  lpc = "returned" => isContainerRunning = stored.was

\* The launch process of chain k has exited.
LaunchExited(k) == k \in DOMAIN chains /\ chains[k].run \in {"ok", "failed"}

\* The status check of chain k's 'close' handler has come back.
LaunchChecked(k) == k \in DOMAIN chains /\ chains[k].st = "over"

\* The launch of chain k exits in this step: the status check is issued.
ExitIsChecked(k) ==
  (chains[k].st = "run" /\ LaunchExited(k)') =>
     (chains'[k].st = "ps" /\ Ps \in issued')

\* The status check of chain k comes back in this step: isContainerRunning
\* and the tray menu take its result.
CheckIsStored(k) ==
  (chains[k].st = "ps" /\ LaunchChecked(k)') =>
     /\ stored'.by = "check"
     /\ isContainerRunning' = IsRunning(stored'.out)
     /\ tray' = IF tray = "none" THEN tray ELSE StatusText(isContainerRunning')

\* C37: after the launch process spawned by startContainer has exited, a
\* status check is made and, once it has come back, isContainerRunning and
\* the tray menu are updated to its result; this also holds when the launch
\* finishes after startContainer has returned false.
C37_LaunchExitIsChecked ==
  /\ [][\A k \in DOMAIN chains : ExitIsChecked(k) /\ CheckIsStored(k)]_vars
  /\ \A k \in Invocations : LaunchExited(k) ~> LaunchChecked(k)

\* A call returned false before its launch had exited; the launch then exited
\* zero and the check of its 'close' handler has set the flag and the menu.
C37_Witness ==
  \E i \in DOMAIN invocations :
    /\ invocations[i].pc = "returned" /\ invocations[i].ret = "false"
    /\ LaunchChecked(i) /\ chains[i].run = "ok"
    /\ stored.by = "check" /\ stored.ok
    /\ isContainerRunning /\ tray = StatusText(TRUE)

\* C38: when initPodmanMachine has returned without error, the machine
\* podman-machine-default exists and is running, whatever machines the runtime
\* reports, also when another machine is running and the default one is not.
C38_DefaultMachineRunsAfterInit ==
  (op = "install" /\ "machine" \in stepsDone) => DefaultMachineRunning

\* A step of the install() call under way: a command is started or ends, or
\* the method goes on from where it is.
InstallStep ==
  \/ install_step2
  \/ install_step3
  \/ install_step4
  \/ install_complete
  \/ install_catch
  \/ runCommand_exec
  \/ checkSystemPodman_loop
  \/ checkSystemPodman_probed
  \/ setupPodman_system
  \/ setupPodman_checkBundled
  \/ setupPodman_extracted
  \/ extractBundledPodman_start
  \/ extractBundledPodman_close
  \/ initPodmanMachine_listedNames
  \/ initPodmanMachine_inited
  \/ initPodmanMachine_listedRunning
  \/ initPodmanMachine_started
  \/ loadContainerImage_listed
  \/ loadContainerImage_checkTar
  \/ loadContainerImage_loaded
  \/ verifyInstallation_versioned
  \/ verifyInstallation_listed

\* The install() call has resolved true or rejected, and its last progress
\* event is 'complete' or 'error'.
InstallSettled ==
  /\ pc = "done"
  /\ \/ result.st = "resolved" /\ result.val = TRUE
     \/ result.st = "rejected"
  /\ events # <<>>
  /\ events[Len(events)].step \in {"complete", "error"}

\* C39: with every external command and the tar process terminating, every
\* install() call resolves true or rejects, its last progress event being
\* 'complete' or 'error': a call that has not settled has a child process
\* whose end it awaits or a step of its own to take.
C39_InstallSettles ==
  op = "install" => (InstallSettled \/ (pc # "done" /\ ENABLED InstallStep))

\* The setup or startup window is destroyed in this step.
SetupWindowGone ==
  mainWindow = "install" /\ mainWindow' \notin {"install", "none"}

\* The process was not ready when the event was handled and did not quit on it.
HandledUnready(e) == e.window = "install" /\ ~e.ready /\ ~e.quit

\* C40: destroying the install or startup window before initialization is over
\* never quits the application.  A window-all-closed event has led to
\* app.quit() only if appReady was set when it was handled, the event of the
\* setup window is handled with appReady unset and without app.quit(), the
\* step that destroys the setup window does not end the process, and appReady
\* is set only with the tray and the main window created.
C40_NoQuitBeforeReady ==
  /\ [](\A e \in allClosed : /\ e.quit => e.ready
                             /\ e.window = "install" => HandledUnready(e))
  /\ [](appReady => (tray # "none" /\ mainWindow \in {"index", "novnc"}))
  /\ [][SetupWindowGone => main' # "quit"]_vars
  /\ [][(~appReady /\ appReady')
          => (tray' # "none" /\ mainWindow' \in {"index", "novnc"})]_vars

\* The setup window of a first launch was destroyed before the application
\* was ready, window-all-closed was handled without app.quit(), the launch
\* went on to its end and the application waits for the user.
C40_Witness ==
  /\ main = "ready" /\ appReady /\ installs = 1
  /\ \E e \in allClosed : HandledUnready(e)
  /\ faults = 0
====
